---- MODULE Spec2Model ----
(***************************************************************************)
(* The dev-server module graph (ModuleNode / ModuleGraph) and its          *)
(* invalidation engine, as a state machine.                                *)
(*                                                                         *)
(* JavaScript is single threaded: one action below is one run-to-          *)
(* completion stretch of code between two suspension points (an await of   *)
(* the injected resolver, a .then callback, an await Promise.all).         *)
(*                                                                         *)
(* A URL, id or file is a sequence of tokens: path segments ("/a"),        *)
(* extensions (".js"), the query separator "?" followed by query           *)
(* parameters ("t=1", "import", "inline").                                 *)
(***************************************************************************)
EXTENDS Naturals, Sequences, FiniteSets, TLC

VARIABLES
    nodes,            \* every ModuleNode ever constructed; the index is the object identity
    urlToModuleMap,   \* url  -> node
    idToModuleMap,    \* id   -> node
    fileToModulesMap, \* file -> set of nodes
    unresolved,       \* ssr flag -> (raw url -> node | promise): the two pending caches
    promises,         \* every modPromise ever created by _ensureEntryFromUrl
    resolveCalls,     \* <<url, ssr>> -> number of invocations of the injected resolveId
    calls,            \* the ensureEntryFromUrl calls made by outside callers
    lookups,          \* the getModuleByUrl, getModuleById, getModulesByFile and resolveUrl calls
    updates,          \* the updateModuleInfo calls, in flight or ended
    now,              \* Date.now()
    lastOp            \* the last synchronous operation run on the graph, with its arguments

vars == <<nodes, urlToModuleMap, idToModuleMap, fileToModulesMap, unresolved,
          promises, resolveCalls, calls, lookups, updates, now, lastOp>>

-----------------------------------------------------------------------------
(* Bounds of the model *)

\* ensureEntryFromUrl calls made by outside callers
MaxCalls == 2
\* updateModuleInfo calls, the one that built the initial import included
MaxUpdates == 3
\* updateModuleInfo calls that build the graph an invalidation runs on
MaxGraphUpdates == 2
\* largest value of the clock and of a caller-supplied timestamp
MaxTime == 2
\* getModuleByUrl, getModuleById, getModulesByFile and resolveUrl calls
MaxLookups == 2

-----------------------------------------------------------------------------
(* Values *)

NoNode == 0
NoId == <<>>
Absent == "undefined"

SetToSeq(S) == CHOOSE s \in [1..Cardinality(S) -> S] : \A x \in S : \E i \in DOMAIN s : s[i] = x

\* first position of token t in s, Len(s) + 1 when absent
IndexOf(s, t) ==
    IF \E i \in 1..Len(s) : s[i] = t
    THEN CHOOSE i \in 1..Len(s) : s[i] = t /\ \A j \in 1..(i - 1) : s[j] # t
    ELSE Len(s) + 1

Exts == {".js", ".css", ".vue"}

\* utils.cleanUrl: the url without its query string
cleanUrl(url) == SubSeq(url, 1, IndexOf(url, "?") - 1)

QueryOf(url) == SubSeq(url, IndexOf(url, "?") + 1, Len(url))

\* the url with the query parameters in drop removed, and the separator with them
\* when no parameter is left
RemoveParams(url, drop) ==
    LET q == SelectSeq(QueryOf(url), LAMBDA p : p \notin drop)
    IN  IF q = <<>> THEN cleanUrl(url) ELSE cleanUrl(url) \o <<"?">> \o q

TimestampParams == {"t=1", "t=2"}

\* utils.removeTimestampQuery
removeTimestampQuery(url) == RemoveParams(url, TimestampParams)

\* utils.removeImportQuery
removeImportQuery(url) == RemoveParams(url, {"import"})

\* node:path extname
extname(path) ==
    IF Len(path) > 1 /\ path[Len(path)] \in Exts THEN <<path[Len(path)]>> ELSE <<>>

\* String.prototype.endsWith, on tokens
EndsWith(s, suffix) ==
    Len(suffix) <= Len(s) /\ SubSeq(s, Len(s) - Len(suffix) + 1, Len(s)) = suffix

\* plugins/css isDirectCSSRequest
isDirectCSSRequest(url) ==
    EndsWith(cleanUrl(url), <<".css">>) /\ \E i \in DOMAIN QueryOf(url) : QueryOf(url)[i] = "direct"

\* url.includes('\0') || url.startsWith('virtual:')
IsVirtual(url) ==
    \/ \E i \in DOMAIN url : url[i] = "\\0"
    \/ (url # <<>> /\ url[1] = "virtual:")

-----------------------------------------------------------------------------
(* The injected resolver and the urls requested of the graph *)

\* the raw urls callers request
RawUrls ==
    { <<"/a">>,
      <<"/a", ".js">>,
      <<"/a", ".js", "?", "t=1">>,
      <<"/b", ".js">>,
      <<"/c", ".css">>,
      <<"/c", ".css", "?", "inline">>,
      <<"/x", ".js">>,
      <<"/n", ".js">>,
      <<"/a", "?", "q=1">>,
      <<"/a", ".js", "?", "q=1">>,
      <<"virtual:", "v">>,
      <<"\\0", "v">> }

\* the urls the graph hands to the resolver
Urls == { removeImportQuery(removeTimestampQuery(u)) : u \in RawUrls }

NullResult == [id |-> NoId, meta |-> Absent, null |-> TRUE]
Resolved(id, meta) == [id |-> id, meta |-> meta, null |-> FALSE]

\* resolveId(url, ssr): the resolver given to the constructor. It is referentially
\* stable: the answer is a function of (url, ssr). "/a" and "/a.js" are one module, and
\* "/x.js" is an alias of it; "/b.js" is another file under ssr; "/c.css?inline" is a
\* query variant; "/n.js" is a url no plugin resolves; "virtual:v" and "\0v" are
\* virtual modules that a plugin resolves to a file.
ResolveId(url, ssr) ==
    CASE cleanUrl(url) \in {<<"/a">>, <<"/a", ".js">>, <<"/x", ".js">>} ->
            Resolved(<<"/R", "/a", ".js">> \o SubSeq(url, Len(cleanUrl(url)) + 1, Len(url)), Absent)
      [] cleanUrl(url) = <<"/b", ".js">> ->
            IF ssr THEN Resolved(<<"/R", "/b", ".server", ".js">>, "ssr")
                   ELSE Resolved(<<"/R", "/b", ".js">>, Absent)
      [] cleanUrl(url) = <<"/c", ".css">> ->
            Resolved(<<"/R", "/c", ".css">> \o SubSeq(url, Len(cleanUrl(url)) + 1, Len(url)), Absent)
      [] cleanUrl(url) \in {<<"virtual:", "v">>, <<"\\0", "v">>} ->
            Resolved(<<"/R", "/v", ".js">>, Absent)
      [] OTHER -> NullResult

-----------------------------------------------------------------------------
(* ModuleNode *)

\* new ModuleNode(url, setIsSelfAccepting)
ModuleNode(url, setIsSelfAccepting) ==
    [ url |-> url,
      id |-> NoId,
      file |-> NoId,
      type |-> IF isDirectCSSRequest(url) THEN "css" ELSE "js",
      info |-> Absent,
      meta |-> Absent,
      importers |-> {},
      clientImportedModules |-> {},
      ssrImportedModules |-> {},
      acceptedHmrDeps |-> {},
      acceptedHmrExports |-> "null",
      importedBindings |-> "null",
      isSelfAccepting |-> IF setIsSelfAccepting THEN "false" ELSE Absent,
      transformResult |-> FALSE,       \* TRUE: a cached artifact, FALSE: null
      ssrTransformResult |-> FALSE,
      ssrModule |-> FALSE,
      ssrError |-> FALSE,
      lastHMRTimestamp |-> 0,
      lastInvalidationTimestamp |-> 0 ]

\* get importedModules()
importedModules(n) == n.clientImportedModules \cup n.ssrImportedModules

NodeIds == DOMAIN nodes

-----------------------------------------------------------------------------
(* Maps *)

Has(map, k) == k \in DOMAIN map

Put(map, k, v) == [x \in DOMAIN map \cup {k} |-> IF x = k THEN v ELSE map[x]]

\* an entry of a pending cache: a ModuleNode, or the Promise<ModuleNode> of an
\* _ensureEntryFromUrl in flight
NodeEntry(n) == [kind |-> "node", ref |-> n]
PromiseEntry(p) == [kind |-> "promise", ref |-> p]

\* _getUnresolvedUrlToModule(url, ssr)
HasUnresolved(cache, url, ssr) == Has(cache[ssr], url)
GetUnresolved(cache, url, ssr) == cache[ssr][url]

\* variant: one pending cache for both flags
SetUnresolvedForBothFlags(cache, url, mod, ssr) ==
    [f \in DOMAIN cache |-> Put(cache[f], url, mod)]

\* _setUnresolvedUrlToModule(url, mod, ssr)
SetUnresolved(cache, url, mod, ssr) == [cache EXCEPT ![ssr] = Put(cache[ssr], url, mod)]

-----------------------------------------------------------------------------
(* URL resolution *)

\* the url with the extension of the resolved id spliced in before the query
FixExtension(url, resolvedId, ext, pathname) ==
    IF url # resolvedId /\ ~IsVirtual(url) /\ ext # <<>> /\ ~EndsWith(pathname, ext)
    THEN pathname \o ext \o SubSeq(url, Len(pathname) + 1, Len(url))
    ELSE url

ResolvedUrl(url, resolvedId, meta) ==
    [ url |-> FixExtension(url, resolvedId, extname(cleanUrl(resolvedId)), cleanUrl(url)),
      id |-> resolvedId,
      meta |-> meta ]

\* _resolveUrl(url, ssr) once resolveId has answered `resolved`: <<url, resolvedId, meta>>
ResolveUrlWith(url, resolved) ==
    ResolvedUrl(url,
                IF resolved.null THEN url ELSE IF resolved.id = NoId THEN url ELSE resolved.id,
                IF resolved.null THEN Absent ELSE resolved.meta)

\* variant: the modPromise is not published in the pending cache while it is in flight
StartResolutionUnpublished(g, rawUrl, ssr, setIsSelfAccepting, p) ==
    [ entry |-> PromiseEntry(p),
      g |-> [ promises |-> Append(g.promises,
                             [ rawUrl |-> rawUrl, ssr |-> ssr,
                               setIsSelfAccepting |-> setIsSelfAccepting,
                               state |-> "pending", value |-> NoNode ]),
              resolveCalls |-> [g.resolveCalls EXCEPT ![<<rawUrl, ssr>>] = @ + 1],
              unresolved |-> g.unresolved ] ]

\* a miss of the pending cache: resolveId is called and the modPromise p is published
\* in the pending cache before the call suspends
StartResolution(g, rawUrl, ssr, setIsSelfAccepting, p) ==
    [ entry |-> PromiseEntry(p),
      g |-> [ promises |-> Append(g.promises,
                             [ rawUrl |-> rawUrl, ssr |-> ssr,
                               setIsSelfAccepting |-> setIsSelfAccepting,
                               state |-> "pending", value |-> NoNode ]),
              resolveCalls |-> [g.resolveCalls EXCEPT ![<<rawUrl, ssr>>] = @ + 1],
              unresolved |-> SetUnresolved(g.unresolved, rawUrl, PromiseEntry(p), ssr) ] ]

\* variant: a rejected modPromise in the pending cache counts as a miss
EnsureNormalizedRetrying(g, rawUrl, ssr, setIsSelfAccepting) ==
    IF /\ HasUnresolved(g.unresolved, rawUrl, ssr)
       /\ ~ ( /\ GetUnresolved(g.unresolved, rawUrl, ssr).kind = "promise"
              /\ g.promises[GetUnresolved(g.unresolved, rawUrl, ssr).ref].state = "rejected" )
    THEN [entry |-> GetUnresolved(g.unresolved, rawUrl, ssr), g |-> g]
    ELSE StartResolution(g, rawUrl, ssr, setIsSelfAccepting, Len(g.promises) + 1)

\* _ensureEntryFromUrl on the normalized url, up to its suspension
EnsureNormalized(g, rawUrl, ssr, setIsSelfAccepting) ==
    IF HasUnresolved(g.unresolved, rawUrl, ssr)
    THEN [entry |-> GetUnresolved(g.unresolved, rawUrl, ssr), g |-> g]
    ELSE StartResolution(g, rawUrl, ssr, setIsSelfAccepting, Len(g.promises) + 1)

\* the part of _ensureEntryFromUrl that runs before it suspends: the quick path of the
\* pending cache or, on a miss, the call of the resolver and the publication of the
\* modPromise. The result is the cache entry handed to the caller and the new caches.
EnsureEntrySync(g, rawUrl, ssr, setIsSelfAccepting) ==
    EnsureNormalized(g, removeImportQuery(removeTimestampQuery(rawUrl)), ssr,
                     setIsSelfAccepting)

\* the caches EnsureEntrySync reads and writes
Caches == [promises |-> promises, resolveCalls |-> resolveCalls, unresolved |-> unresolved]

\* what a caller awaiting a cache entry has received: a node, nothing yet, or a rejection
Settled(entry) ==
    IF entry.kind = "node" THEN TRUE ELSE promises[entry.ref].state # "pending"
Rejected(entry) == entry.kind = "promise" /\ promises[entry.ref].state = "rejected"
Fulfilled(entry) == Settled(entry) /\ ~Rejected(entry)
ValueOf(entry) == IF entry.kind = "node" THEN entry.ref ELSE promises[entry.ref].value

\* lastOp: the operation, its arguments, and for an invalidation the seen set it was
\* given, the seen set it left and the nodes it processed, in the order it did
NoOp == [op |-> "none", mod |-> NoNode, timestamp |-> 0, isHmr |-> FALSE,
         hmrBoundaries |-> {}, given |-> {}, seen |-> {}, visited |-> <<>>,
         file |-> NoId]

EnsureCalled(rawUrl, ssr, r) ==
    /\ Len(calls) < MaxCalls
    /\ promises' = r.g.promises
    /\ resolveCalls' = r.g.resolveCalls
    /\ unresolved' = r.g.unresolved
    /\ calls' = Append(calls, [rawUrl |-> rawUrl, ssr |-> ssr, entry |-> r.entry,
                               hit |-> r.g = Caches])
    /\ lastOp' = NoOp
    /\ UNCHANGED <<nodes, urlToModuleMap, idToModuleMap, fileToModulesMap, lookups,
                   updates, now>>

\* ensureEntryFromUrl(rawUrl, ssr, setIsSelfAccepting), called from outside the graph
EnsureEntryFromUrl(rawUrl, ssr, setIsSelfAccepting) ==
    EnsureCalled(rawUrl, ssr, EnsureEntrySync(Caches, rawUrl, ssr, setIsSelfAccepting))

\* the registry: what the continuation of a modPromise reads and writes
Registry == [nodes |-> nodes, urlToModuleMap |-> urlToModuleMap,
             idToModuleMap |-> idToModuleMap, fileToModulesMap |-> fileToModulesMap,
             unresolved |-> unresolved, promises |-> promises]

\* variant: the new node is not entered in idToModuleMap
RegisterNewWithoutId(g, res, setIsSelfAccepting, mod, file) ==
    [g EXCEPT
       !.nodes = Append(@, [ModuleNode(res.url, setIsSelfAccepting) EXCEPT
                                !.meta = res.meta, !.id = res.id, !.file = file]),
       !.urlToModuleMap = Put(@, res.url, mod),
       !.fileToModulesMap = Put(@, file, (IF Has(@, file) THEN @[file] ELSE {}) \cup {mod})]

\* variant: the new node replaces the nodes of its file in the file index
RegisterNewAloneInFile(g, res, setIsSelfAccepting, mod, file) ==
    [g EXCEPT
       !.nodes = Append(@, [ModuleNode(res.url, setIsSelfAccepting) EXCEPT
                                !.meta = res.meta, !.id = res.id, !.file = file]),
       !.urlToModuleMap = Put(@, res.url, mod),
       !.idToModuleMap = Put(@, res.id, mod),
       !.fileToModulesMap = Put(@, file, {mod})]

\* `if (!mod) { mod = new ModuleNode(url, setIsSelfAccepting) ... }`
RegisterNew(g, res, setIsSelfAccepting, mod, file) ==
    [g EXCEPT
       !.nodes = Append(@, [ModuleNode(res.url, setIsSelfAccepting) EXCEPT
                                !.meta = res.meta, !.id = res.id, !.file = file]),
       !.urlToModuleMap = Put(@, res.url, mod),
       !.idToModuleMap = Put(@, res.id, mod),
       !.fileToModulesMap = Put(@, file, (IF Has(@, file) THEN @[file] ELSE {}) \cup {mod})]

\* `else if (!this.urlToModuleMap.has(url)) { this.urlToModuleMap.set(url, mod) }`
RegisterAlias(g, res) ==
    IF Has(g.urlToModuleMap, res.url)
    THEN g
    ELSE [g EXCEPT !.urlToModuleMap = Put(@, res.url, g.idToModuleMap[res.id])]

\* the node of the resolved id, found or created
NodeOf(g, res) ==
    IF Has(g.idToModuleMap, res.id) THEN g.idToModuleMap[res.id] ELSE Len(g.nodes) + 1

\* the end of the modPromise p: the pending cache gets the node, the promise fulfils
Fulfil(g, p, mod) ==
    [g EXCEPT !.unresolved = SetUnresolved(@, g.promises[p].rawUrl, NodeEntry(mod),
                                           g.promises[p].ssr),
              !.promises[p].state = "fulfilled",
              !.promises[p].value = mod]

\* variant: a node is created for every resolution, without a lookup of the resolved id
EnsureEntryRegisterAlways(g, p, res) ==
    Fulfil(RegisterNew(g, res, g.promises[p].setIsSelfAccepting, Len(g.nodes) + 1,
                       cleanUrl(res.id)),
           p, Len(g.nodes) + 1)

EnsureEntryRegister(g, p, res) ==
    Fulfil(IF Has(g.idToModuleMap, res.id)
           THEN RegisterAlias(g, res)
           ELSE RegisterNew(g, res, g.promises[p].setIsSelfAccepting, Len(g.nodes) + 1,
                            cleanUrl(res.id)),
           p, NodeOf(g, res))

\* the continuation of the modPromise p once resolveId has answered: find or create the
\* node of the resolved id, register it, replace the promise in the pending cache
EnsureEntryResolved(g, p) ==
    EnsureEntryRegister(g, p,
        ResolveUrlWith(g.promises[p].rawUrl, ResolveId(g.promises[p].rawUrl, g.promises[p].ssr)))

SetRegistry(g) ==
    /\ nodes' = g.nodes
    /\ urlToModuleMap' = g.urlToModuleMap
    /\ idToModuleMap' = g.idToModuleMap
    /\ fileToModulesMap' = g.fileToModulesMap
    /\ unresolved' = g.unresolved
    /\ promises' = g.promises

\* resolveId answers the modPromise p, and its continuation runs
ResolveDone(p) ==
    /\ promises[p].state = "pending"
    /\ SetRegistry(EnsureEntryResolved(Registry, p))
    /\ lastOp' = NoOp
    /\ UNCHANGED <<resolveCalls, calls, lookups, updates, now>>

\* variant: the rejection leaves the node of the attempt behind
ResolveRejectLeavingNode(p) ==
    /\ promises[p].state = "pending"
    /\ promises' = [promises EXCEPT ![p].state = "rejected"]
    /\ nodes' = Append(nodes, ModuleNode(promises[p].rawUrl,
                                         promises[p].setIsSelfAccepting))
    /\ lastOp' = NoOp
    /\ UNCHANGED <<urlToModuleMap, idToModuleMap, fileToModulesMap, unresolved,
                   resolveCalls, calls, lookups, updates, now>>

\* resolveId rejects: the modPromise p rejects and stays in the pending cache
\* variant: a rejected resolution is evicted from the pending cache
ResolveRejectEvicting(p) ==
    /\ promises[p].state = "pending"
    /\ promises' = [promises EXCEPT ![p].state = "rejected"]
    /\ unresolved' =
          [unresolved EXCEPT ![promises[p].ssr] =
              [u \in DOMAIN @ \ {promises[p].rawUrl} |-> @[u]]]
    /\ lastOp' = NoOp
    /\ UNCHANGED <<nodes, urlToModuleMap, idToModuleMap, fileToModulesMap,
                   resolveCalls, calls, lookups, updates, now>>

ResolveReject(p) ==
    /\ promises[p].state = "pending"
    /\ promises' = [promises EXCEPT ![p].state = "rejected"]
    /\ lastOp' = NoOp
    /\ UNCHANGED <<nodes, urlToModuleMap, idToModuleMap, fileToModulesMap, unresolved,
                   resolveCalls, calls, lookups, updates, now>>

-----------------------------------------------------------------------------
(* Lookups *)

NoEntry == [kind |-> "none", ref |-> NoNode]
NoUrl == [url |-> NoId, id |-> NoId, meta |-> Absent]

\* a lookup call: where it stands (awaiting the pending-cache entry, awaiting the
\* resolver, returned, rejected) and what it has returned: the cache entry handed
\* back, a node or none, a set of nodes, or <<url, resolvedId, meta>>
Lookup(op, arg, ssr) ==
    [ op |-> op, arg |-> arg, ssr |-> ssr, pc |-> "returned", entry |-> NoEntry,
      mod |-> NoNode, mods |-> {}, res |-> NoUrl ]

Looked(l, rc) ==
    /\ Len(lookups) < MaxLookups
    /\ lookups' = Append(lookups, l)
    /\ resolveCalls' = rc
    /\ lastOp' = NoOp
    /\ UNCHANGED <<nodes, urlToModuleMap, idToModuleMap, fileToModulesMap, unresolved,
                   promises, calls, updates, now>>

\* `await this.resolveId(url, !!ssr)` inside _resolveUrl: the resolver is called
CallResolver(url, ssr) == [resolveCalls EXCEPT ![<<url, ssr>>] = @ + 1]

GetModuleByUrlNormalized(url, ssr) ==
    IF HasUnresolved(unresolved, url, ssr)
    THEN Looked([Lookup("getModuleByUrl", url, ssr)
                    EXCEPT !.entry = GetUnresolved(unresolved, url, ssr)],
                resolveCalls)
    ELSE Looked([Lookup("getModuleByUrl", url, ssr) EXCEPT !.pc = "resolve"],
                CallResolver(url, ssr))

\* getModuleByUrl(rawUrl, ssr), up to its suspension
GetModuleByUrl(rawUrl, ssr) ==
    GetModuleByUrlNormalized(removeImportQuery(removeTimestampQuery(rawUrl)), ssr)

\* resolveUrl(url, ssr), up to `await this._getUnresolvedUrlToModule(url, ssr)`
ResolveUrlNormalized(url, ssr) ==
    Looked([Lookup("resolveUrl", url, ssr)
               EXCEPT !.pc = "cache",
                      !.entry = IF HasUnresolved(unresolved, url, ssr)
                                THEN GetUnresolved(unresolved, url, ssr)
                                ELSE NoEntry],
           resolveCalls)

ResolveUrl(rawUrl, ssr) ==
    ResolveUrlNormalized(removeImportQuery(removeTimestampQuery(rawUrl)), ssr)

LookupStep(ls, rc) ==
    /\ lookups' = ls
    /\ resolveCalls' = rc
    /\ lastOp' = NoOp
    /\ UNCHANGED <<nodes, urlToModuleMap, idToModuleMap, fileToModulesMap, unresolved,
                   promises, calls, updates, now>>

\* the <<url, id, meta>> of a node
UrlOf(mod) == [url |-> nodes[mod].url, id |-> nodes[mod].id, meta |-> nodes[mod].meta]

\* resolveUrl after the await of the pending-cache entry: `if (mod?.id) return ...`,
\* else _resolveUrl; a rejected modPromise rejects the call
CacheAwaited(l) ==
    /\ lookups[l].pc = "cache"
    /\ IF lookups[l].entry.kind = "promise" THEN Settled(lookups[l].entry) ELSE TRUE
    /\ IF lookups[l].entry.kind = "none"
       THEN LookupStep([lookups EXCEPT ![l].pc = "resolve"],
                       CallResolver(lookups[l].arg, lookups[l].ssr))
       ELSE IF Rejected(lookups[l].entry)
       THEN LookupStep([lookups EXCEPT ![l].pc = "rejected"], resolveCalls)
       ELSE IF nodes[ValueOf(lookups[l].entry)].id # NoId
       THEN LookupStep([lookups EXCEPT ![l].pc = "returned",
                                       ![l].res = UrlOf(ValueOf(lookups[l].entry))],
                       resolveCalls)
       ELSE LookupStep([lookups EXCEPT ![l].pc = "resolve"],
                       CallResolver(lookups[l].arg, lookups[l].ssr))

\* `return this.urlToModuleMap.get(url)`
NodeOfResolvedUrl(res) ==
    IF Has(urlToModuleMap, res.url) THEN urlToModuleMap[res.url] ELSE NoNode

\* variant: the lookup registers the url it has resolved for the node of the id
LookupAnsweredRegistering(l, res) ==
    /\ lookups' = [lookups EXCEPT
                     ![l].pc = "returned",
                     ![l].res = res,
                     ![l].mod = IF lookups[l].op = "getModuleByUrl"
                                THEN NodeOfResolvedUrl(res) ELSE NoNode]
    /\ urlToModuleMap' = IF Has(idToModuleMap, res.id)
                         THEN Put(urlToModuleMap, res.url, idToModuleMap[res.id])
                         ELSE urlToModuleMap
    /\ lastOp' = NoOp
    /\ UNCHANGED <<nodes, idToModuleMap, fileToModulesMap, unresolved, promises,
                   resolveCalls, calls, updates, now>>

LookupAnswered(l, res) ==
    LookupStep([lookups EXCEPT
                  ![l].pc = "returned",
                  ![l].res = res,
                  ![l].mod = IF lookups[l].op = "getModuleByUrl"
                             THEN NodeOfResolvedUrl(res) ELSE NoNode],
               resolveCalls)

\* the resolver answers a lookup, and the continuation of the lookup runs
LookupResolved(l) ==
    /\ lookups[l].pc = "resolve"
    /\ LookupAnswered(l, ResolveUrlWith(lookups[l].arg,
                                        ResolveId(lookups[l].arg, lookups[l].ssr)))

\* the resolver rejects a lookup
LookupRejected(l) ==
    /\ lookups[l].pc = "resolve"
    /\ LookupStep([lookups EXCEPT ![l].pc = "rejected"], resolveCalls)

\* getModuleById(id)
GetModuleById(id) ==
    Looked([Lookup("getModuleById", id, FALSE)
               EXCEPT !.mod = IF Has(idToModuleMap, removeTimestampQuery(id))
                              THEN idToModuleMap[removeTimestampQuery(id)] ELSE NoNode],
           resolveCalls)

\* getModulesByFile(file)
GetModulesByFile(file) ==
    Looked([Lookup("getModulesByFile", file, FALSE)
               EXCEPT !.mods = IF Has(fileToModulesMap, file)
                               THEN fileToModulesMap[file] ELSE {}],
           resolveCalls)

-----------------------------------------------------------------------------
(* updateModuleInfo *)

\* the state updateModuleInfo reads and writes between two suspension points
World == [nodes |-> nodes, promises |-> promises, resolveCalls |-> resolveCalls,
          unresolved |-> unresolved]

ValueIn(ps, entry) == IF entry.kind = "node" THEN entry.ref ELSE ps[entry.ref].value

CachesOf(w) == [promises |-> w.promises, resolveCalls |-> w.resolveCalls,
                unresolved |-> w.unresolved]

WithCaches(w, g) ==
    [w EXCEPT !.promises = g.promises, !.resolveCalls = g.resolveCalls,
              !.unresolved = g.unresolved]

RECURSIVE EnsureAll(_, _, _, _)
RECURSIVE EnsureNext(_, _, _, _, _)
\* ensureEntryFromUrl(url, ssr) for each url of the sequence, up to each call's
\* suspension: the state after the calls and the cache entry each call was handed
EnsureAll(w, urls, ssr, entries) ==
    IF urls = <<>>
    THEN [w |-> w, entries |-> entries]
    ELSE EnsureNext(w, urls, ssr, entries, EnsureEntrySync(CachesOf(w), Head(urls), ssr, TRUE))

EnsureNext(w, urls, ssr, entries, r) ==
    EnsureAll(WithCaches(w, r.g), Tail(urls), ssr, Put(entries, Head(urls), r.entry))

EmptyMap == [x \in {} |-> NoNode]

\* `mod.isSelfAccepting = isSelfAccepting`
SetSelfAccepting(ns, a) ==
    [ns EXCEPT ![a.mod].isSelfAccepting = IF a.isSelfAccepting THEN "true" ELSE "false"]

\* variant: the edge set of the importing node is patched as each importer is added
AddImporterAndEdge(ns, deps, mod) ==
    [n \in DOMAIN ns |->
        IF n = mod
        THEN [ns[n] EXCEPT !.importers = IF n \in deps THEN @ \cup {mod} ELSE @,
                           !.clientImportedModules = @ \cup deps]
        ELSE IF n \in deps THEN [ns[n] EXCEPT !.importers = @ \cup {mod}]
                            ELSE ns[n]]

\* `imported.importers.add(mod)` for the node references of importedModules
AddImporter(ns, deps, mod) ==
    [n \in DOMAIN ns |-> IF n \in deps THEN [ns[n] EXCEPT !.importers = @ \cup {mod}]
                                       ELSE ns[n]]

\* the call suspended at `await Promise.all(resolvePromises)` of the imports
Suspended(a, prevImports, r) ==
    [ w |-> r.w,
      c |-> [ mod |-> a.mod, ssr |-> a.ssr,
              importedNodes |-> a.importedNodes, importedUrls |-> a.importedUrls,
              importedBindings |-> a.importedBindings,
              acceptedNodes |-> a.acceptedNodes, acceptedUrls |-> a.acceptedUrls,
              acceptedExports |-> a.acceptedExports,
              prevImports |-> prevImports,
              entries |-> r.entries, done |-> {},
              accEntries |-> EmptyMap,
              noLongerImported |-> {},
              pc |-> "imports" ] ]

\* updateModuleInfo up to `await Promise.all(resolvePromises)` of the imports
UpdateImportsStart(w, a) ==
    Suspended(a,
              IF a.ssr THEN w.nodes[a.mod].ssrImportedModules
                       ELSE w.nodes[a.mod].clientImportedModules,
              EnsureAll([w EXCEPT !.nodes = AddImporter(SetSelfAccepting(w.nodes, a),
                                                        a.importedNodes, a.mod)],
                        SetToSeq(a.importedUrls), a.ssr, EmptyMap))

\* the dependencies the call has resolved: new Set(resolveResults)
NextImports(ps, c) == c.importedNodes \cup { ValueIn(ps, c.entries[u]) : u \in c.importedUrls }

\* `mod.ssrImportedModules = nextImports` or `mod.clientImportedModules = nextImports`
\* variant: the new imports replace the edge sets of both directions
SetImportsOfBothDirections(ns, c, nextImports) ==
    [ns EXCEPT ![c.mod].ssrImportedModules = nextImports,
               ![c.mod].clientImportedModules = nextImports]

\* variant: the new imports drop the transform results of the module
SetImportsDroppingResults(ns, c, nextImports) ==
    IF c.ssr THEN [ns EXCEPT ![c.mod].ssrImportedModules = nextImports,
                             ![c.mod].ssrTransformResult = FALSE]
             ELSE [ns EXCEPT ![c.mod].clientImportedModules = nextImports,
                             ![c.mod].transformResult = FALSE]

SetImports(ns, c, nextImports) ==
    IF c.ssr THEN [ns EXCEPT ![c.mod].ssrImportedModules = nextImports]
             ELSE [ns EXCEPT ![c.mod].clientImportedModules = nextImports]

\* variant: only the edge set of the direction of the call is consulted
NoLongerInDirection(ns, c) ==
    { dep \in c.prevImports :
        dep \notin (IF c.ssr THEN ns[c.mod].ssrImportedModules
                             ELSE ns[c.mod].clientImportedModules) }

\* the previous imports that are in neither edge set of the node any more
NoLonger(ns, c) ==
    { dep \in c.prevImports : /\ dep \notin ns[c.mod].clientImportedModules
                              /\ dep \notin ns[c.mod].ssrImportedModules }

\* `dep.importers.delete(mod)` for each of them
DeleteImporter(ns, deps, mod) ==
    [n \in DOMAIN ns |-> IF n \in deps THEN [ns[n] EXCEPT !.importers = @ \ {mod}]
                                       ELSE ns[n]]

\* the call suspended at `await Promise.all(resolvePromises)` of the accepted modules
Applied(c, orphans, r) ==
    [ w |-> r.w,
      c |-> [c EXCEPT !.noLongerImported = orphans, !.accEntries = r.entries,
                      !.pc = "accepted"] ]

\* variant: a dependency dropped from the direction of the call is reported when the
\* node is its only importer, the other direction not being consulted
DiffImportsOrphaningDropped(w, c, ns) ==
    Applied(c,
            { dep \in NoLongerInDirection(ns, c) : ns[dep].importers \ {c.mod} = {} },
            EnsureAll([w EXCEPT !.nodes = DeleteImporter(ns, NoLonger(ns, c), c.mod)],
                      SetToSeq(c.acceptedUrls), c.ssr, EmptyMap))

\* variant: every previous import that has no other importer is reported, dropped or not
DiffImportsReportingKept(w, c, ns) ==
    Applied(c,
            { dep \in c.prevImports : ns[dep].importers \ {c.mod} = {} },
            EnsureAll([w EXCEPT !.nodes = DeleteImporter(ns, NoLonger(ns, c), c.mod)],
                      SetToSeq(c.acceptedUrls), c.ssr, EmptyMap))

\* prevImports.forEach(...), then the resolution of the accepted modules begins
DiffImports(w, c, ns) ==
    Applied(c,
            { dep \in NoLonger(ns, c) : ns[dep].importers \ {c.mod} = {} },
            EnsureAll([w EXCEPT !.nodes = DeleteImporter(ns, NoLonger(ns, c), c.mod)],
                      SetToSeq(c.acceptedUrls), c.ssr, EmptyMap))

\* updateModuleInfo from the replacement of the edge set to
\* `await Promise.all(resolvePromises)` of the accepted modules
UpdateApplyImports(w, c) ==
    DiffImports(w, c, SetImports(w.nodes, c, NextImports(w.promises, c)))

\* updateModuleInfo after the accepted modules are resolved, to its return
UpdateFinish(w, c) ==
    [ w |-> [w EXCEPT
               !.nodes[c.mod].acceptedHmrDeps =
                   c.acceptedNodes \cup
                       { ValueIn(w.promises, c.accEntries[u]) : u \in c.acceptedUrls },
               !.nodes[c.mod].acceptedHmrExports = c.acceptedExports,
               !.nodes[c.mod].importedBindings = c.importedBindings],
      c |-> [c EXCEPT !.pc = "returned"] ]

\* `if (resolvePromises.length) await ...`: without a url to resolve the call runs on
RunOn(s) ==
    IF s.c.pc = "accepted" /\ s.c.acceptedUrls = {} THEN UpdateFinish(s.w, s.c) ELSE s

UpdateFromApply(w, c) == RunOn(UpdateApplyImports(w, c))

RunOnImports(s) ==
    IF s.c.importedUrls = {} THEN UpdateFromApply(s.w, s.c) ELSE s

UpdateFromStart(w, a) == RunOnImports(UpdateImportsStart(w, a))

SetWorld(w) ==
    /\ nodes' = w.nodes
    /\ promises' = w.promises
    /\ resolveCalls' = w.resolveCalls
    /\ unresolved' = w.unresolved

Started(s) ==
    /\ SetWorld(s.w)
    /\ updates' = Append(updates, s.c)
    /\ lastOp' = NoOp
    /\ UNCHANGED <<urlToModuleMap, idToModuleMap, fileToModulesMap, calls, lookups, now>>

Continued(c, s) ==
    /\ SetWorld(s.w)
    /\ updates' = [updates EXCEPT ![c] = s.c]
    /\ lastOp' = NoOp
    /\ UNCHANGED <<urlToModuleMap, idToModuleMap, fileToModulesMap, calls, lookups, now>>

\* updateModuleInfo(mod, importedModules, importedBindings, acceptedModules,
\* acceptedExports, isSelfAccepting, ssr) is called
UpdateModuleInfo(a) == Started(UpdateFromStart(World, a))

\* the callback `.then((dep) => { dep.importers.add(mod); resolveResults[i] = dep })` of
\* one imported url runs; it was registered whether or not the call has failed since
\* variant: a dependency that gains an importer is taken out of the orphan sets
ImportResolvedRetracting(c, url) ==
    /\ url \in updates[c].importedUrls \ updates[c].done
    /\ Fulfilled(updates[c].entries[url])
    /\ nodes' = AddImporter(nodes, {ValueOf(updates[c].entries[url])}, updates[c].mod)
    /\ updates' = [x \in DOMAIN updates |->
                     IF x = c
                     THEN [updates[x] EXCEPT !.done = @ \cup {url}]
                     ELSE [updates[x] EXCEPT !.noLongerImported =
                                                @ \ {ValueOf(updates[c].entries[url])}]]
    /\ lastOp' = NoOp
    /\ UNCHANGED <<urlToModuleMap, idToModuleMap, fileToModulesMap, unresolved,
                   promises, resolveCalls, calls, lookups, now>>

ImportResolved(c, url) ==
    /\ url \in updates[c].importedUrls \ updates[c].done
    /\ Fulfilled(updates[c].entries[url])
    /\ nodes' = AddImporter(nodes, {ValueOf(updates[c].entries[url])}, updates[c].mod)
    /\ updates' = [updates EXCEPT ![c].done = @ \cup {url}]
    /\ lastOp' = NoOp
    /\ UNCHANGED <<urlToModuleMap, idToModuleMap, fileToModulesMap, unresolved,
                   promises, resolveCalls, calls, lookups, now>>

\* `await Promise.all(resolvePromises)` of the imports returns
ImportsAwaited(c) ==
    /\ updates[c].pc = "imports"
    /\ updates[c].done = updates[c].importedUrls
    /\ Continued(c, UpdateFromApply(World, updates[c]))

\* `await Promise.all(resolvePromises)` of the accepted modules returns
AcceptedAwaited(c) ==
    /\ updates[c].pc = "accepted"
    /\ \A u \in updates[c].acceptedUrls : Fulfilled(updates[c].accEntries[u])
    /\ Continued(c, UpdateFinish(World, updates[c]))

\* a Promise.all of the call rejects, because a resolution it awaits was rejected
UpdateRejected(c) ==
    /\ \/ /\ updates[c].pc = "imports"
          /\ \E u \in updates[c].importedUrls : Rejected(updates[c].entries[u])
       \/ /\ updates[c].pc = "accepted"
          /\ \E u \in updates[c].acceptedUrls : Rejected(updates[c].accEntries[u])
    /\ updates' = [updates EXCEPT ![c].pc = "failed"]
    /\ lastOp' = NoOp
    /\ UNCHANGED <<nodes, urlToModuleMap, idToModuleMap, fileToModulesMap, unresolved,
                   promises, resolveCalls, calls, lookups, now>>

-----------------------------------------------------------------------------
(* Invalidation *)

\* variant: the error of the last ssr load is kept
ClearNodeKeepsSsrError(n, timestamp, isHmr) ==
    [n EXCEPT !.lastHMRTimestamp = IF isHmr THEN timestamp ELSE @,
              !.lastInvalidationTimestamp = IF isHmr THEN @ ELSE timestamp,
              !.transformResult = FALSE,
              !.ssrTransformResult = FALSE,
              !.ssrModule = FALSE]

\* the assignments of invalidateModule to the node itself
ClearNode(n, timestamp, isHmr) ==
    [n EXCEPT !.lastHMRTimestamp = IF isHmr THEN timestamp ELSE @,
              !.lastInvalidationTimestamp = IF isHmr THEN @ ELSE timestamp,
              !.transformResult = FALSE,
              !.ssrTransformResult = FALSE,
              !.ssrModule = FALSE,
              !.ssrError = FALSE]

\* variants: the walk goes on to every importer, or to none
PropagatesAlways(ns, mod, importer) == importer \in DOMAIN ns
PropagatesNever(ns, mod, importer) == importer \notin DOMAIN ns

\* does the walk go on from mod to its importer?
Propagates(ns, mod, importer) == mod \notin ns[importer].acceptedHmrDeps

RECURSIVE invalidateModule(_, _, _, _, _)
RECURSIVE InvalidateImporters(_, _, _, _, _)

\* a walk: the nodes, the seen set, and the nodes processed so far
Walk(ns, seen) == [nodes |-> ns, seen |-> seen, visited |-> <<>>]

\* variant: the modules mod imports are cleared with it
ProcessWithImports(s, mod, timestamp, isHmr) ==
    [ nodes |-> [n \in DOMAIN s.nodes |->
                   IF n = mod \/ n \in importedModules(s.nodes[mod])
                   THEN ClearNode(s.nodes[n], timestamp, isHmr)
                   ELSE s.nodes[n]],
      seen |-> s.seen \cup {mod},
      visited |-> Append(s.visited, mod) ]

\* `seen.add(mod)` and the assignments to mod
Process(s, mod, timestamp, isHmr) ==
    [ nodes |-> [s.nodes EXCEPT ![mod] = ClearNode(@, timestamp, isHmr)],
      seen |-> s.seen \cup {mod},
      visited |-> Append(s.visited, mod) ]

\* variant: a node listed in hmrBoundaries is walked like any other
invalidateModuleThroughBoundaries(s, mod, timestamp, isHmr, hmrBoundaries) ==
    IF mod \in s.seen
    THEN s
    ELSE InvalidateImporters(Process(s, mod, timestamp, isHmr),
                             mod, SetToSeq(s.nodes[mod].importers), timestamp, isHmr)

RECURSIVE invalidateModuleInheriting(_, _, _, _, _)
RECURSIVE InvalidateImportersInheriting(_, _, _, _, _, _)
\* variant: the recursive calls pass the hmrBoundaries of the caller on
InvalidateImportersInheriting(s, mod, importers, timestamp, isHmr, hmrBoundaries) ==
    IF importers = <<>>
    THEN s
    ELSE InvalidateImportersInheriting(
             IF Propagates(s.nodes, mod, Head(importers))
             THEN invalidateModuleInheriting(s, Head(importers), timestamp, isHmr,
                                             hmrBoundaries)
             ELSE s,
             mod, Tail(importers), timestamp, isHmr, hmrBoundaries)

invalidateModuleInheriting(s, mod, timestamp, isHmr, hmrBoundaries) ==
    IF mod \in s.seen
    THEN s
    ELSE IF mod \in hmrBoundaries
    THEN Process(s, mod, timestamp, isHmr)
    ELSE InvalidateImportersInheriting(Process(s, mod, timestamp, isHmr),
                                       mod, SetToSeq(s.nodes[mod].importers), timestamp,
                                       isHmr, hmrBoundaries)

\* invalidateModule(mod, seen, timestamp, isHmr, hmrBoundaries) in the walk s:
\* the walk after the call
invalidateModule(s, mod, timestamp, isHmr, hmrBoundaries) ==
    IF mod \in s.seen
    THEN s
    ELSE IF mod \in hmrBoundaries
    THEN Process(s, mod, timestamp, isHmr)
    ELSE InvalidateImporters(Process(s, mod, timestamp, isHmr),
                             mod, SetToSeq(s.nodes[mod].importers), timestamp, isHmr)

RECURSIVE InvalidateImportersStamping(_, _, _, _, _)
\* variant: an importer that accepts mod is not walked, but gets the timestamp of an
\* HMR invalidation
InvalidateImportersStamping(s, mod, importers, timestamp, isHmr) ==
    IF importers = <<>>
    THEN s
    ELSE InvalidateImportersStamping(
             IF Propagates(s.nodes, mod, Head(importers))
             THEN invalidateModule(s, Head(importers), timestamp, isHmr, {})
             ELSE IF isHmr
             THEN [s EXCEPT !.nodes[Head(importers)].lastHMRTimestamp = timestamp]
             ELSE s,
             mod, Tail(importers), timestamp, isHmr)

\* variant: the recursive calls pass the other timestamp field on
InvalidateImportersFlipping(s, mod, importers, timestamp, isHmr) ==
    IF importers = <<>>
    THEN s
    ELSE InvalidateImporters(
             IF Propagates(s.nodes, mod, Head(importers))
             THEN invalidateModule(s, Head(importers), timestamp, ~isHmr, {})
             ELSE s,
             mod, Tail(importers), timestamp, isHmr)

\* mod.importers.forEach(...): the recursive calls pass no hmrBoundaries
InvalidateImporters(s, mod, importers, timestamp, isHmr) ==
    IF importers = <<>>
    THEN s
    ELSE InvalidateImporters(
             IF Propagates(s.nodes, mod, Head(importers))
             THEN invalidateModule(s, Head(importers), timestamp, isHmr, {})
             ELSE s,
             mod, Tail(importers), timestamp, isHmr)

RECURSIVE InvalidateEach(_, _, _, _)
RECURSIVE InvalidateEachAlone(_, _, _, _)
\* variant: every call gets a seen set of its own
InvalidateEachAlone(s, mods, timestamps, isHmr) ==
    IF mods = <<>>
    THEN s
    ELSE InvalidateEachAlone(
             [invalidateModule([s EXCEPT !.seen = {}], Head(mods), Head(timestamps),
                               isHmr, {})
                 EXCEPT !.seen = @ \cup s.seen],
             Tail(mods), Tail(timestamps), isHmr)

\* variant: the first mod of the sequence alone is invalidated
InvalidateEachFirst(s, mods, timestamps, isHmr) ==
    IF mods = <<>>
    THEN s
    ELSE invalidateModule(s, Head(mods), Head(timestamps), isHmr, {})

\* invalidateModule(mod, seen, timestamps[i]) for each mod of a sequence, sharing seen
InvalidateEach(s, mods, timestamps, isHmr) ==
    IF mods = <<>>
    THEN s
    ELSE InvalidateEach(invalidateModule(s, Head(mods), Head(timestamps), isHmr, {}),
                        Tail(mods), Tail(timestamps), isHmr)

\* the elements of a set of nodes in the order they were created, which is the order
\* they were inserted in any Map or Set of the graph
InOrder(S) ==
    CHOOSE q \in [1..Cardinality(S) -> S] :
        \A i, j \in 1..Cardinality(S) : i < j => q[i] < q[j]

\* the seen sets and boundary lists a caller passes
SmallSets == {{}} \cup { {n} : n \in NodeIds }

Invalidated(r, op) ==
    /\ nodes' = r.nodes
    /\ lastOp' = [op EXCEPT !.seen = r.seen, !.visited = r.visited]
    /\ UNCHANGED <<urlToModuleMap, idToModuleMap, fileToModulesMap, unresolved,
                   promises, resolveCalls, calls, lookups, updates>>

\* invalidateModule(mod, seen, timestamp, isHmr, hmrBoundaries), called from outside
InvalidateModule(mod, seen, timestamp, isHmr, hmrBoundaries) ==
    /\ Invalidated(invalidateModule(Walk(nodes, seen), mod, timestamp, isHmr,
                                    hmrBoundaries),
                   [op |-> "invalidateModule", mod |-> mod, timestamp |-> timestamp,
                    isHmr |-> isHmr, hmrBoundaries |-> hmrBoundaries, given |-> seen,
                    seen |-> seen, visited |-> <<>>, file |-> NoId])
    /\ UNCHANGED now

RegisteredNodes == { idToModuleMap[id] : id \in DOMAIN idToModuleMap }

\* variant: the nodes that every importer accepts are passed over
InvalidateAllSkippingAccepted ==
    \E timestamp \in now..MaxTime :
        /\ now' = timestamp
        /\ Invalidated(InvalidateEach(Walk(nodes, {}),
                                      InOrder({ n \in RegisteredNodes :
                                                  \/ nodes[n].importers = {}
                                                  \/ \E i \in nodes[n].importers :
                                                        n \notin nodes[i].acceptedHmrDeps }),
                                      [i \in 1..Cardinality(RegisteredNodes) |-> timestamp],
                                      FALSE),
                       [NoOp EXCEPT !.op = "invalidateAll", !.timestamp = timestamp])

\* invalidateAll()
InvalidateAll ==
    \E timestamp \in now..MaxTime :
        /\ now' = timestamp
        /\ Invalidated(InvalidateEach(Walk(nodes, {}),
                                      InOrder(RegisteredNodes),
                                      [i \in 1..Cardinality(RegisteredNodes) |-> timestamp],
                                      FALSE),
                       [NoOp EXCEPT !.op = "invalidateAll", !.timestamp = timestamp])

\* variant: the first node of the file alone is invalidated
OnFileChangeFirstVariant(file) ==
    /\ Has(fileToModulesMap, file)
    /\ \E timestamp \in now..MaxTime :
           /\ now' = timestamp
           /\ Invalidated(invalidateModule(Walk(nodes, {}),
                                           InOrder(fileToModulesMap[file])[1],
                                           timestamp, FALSE, {}),
                          [NoOp EXCEPT !.op = "onFileChange", !.file = file,
                                       !.timestamp = timestamp])

\* onFileChange(file): every invalidateModule call reads Date.now() for itself
OnFileChange(file) ==
    /\ Has(fileToModulesMap, file)
    /\ \E timestamps \in [1..Cardinality(fileToModulesMap[file]) -> now..MaxTime] :
           /\ \A i, j \in DOMAIN timestamps : i < j => timestamps[i] <= timestamps[j]
           /\ now' = IF timestamps = <<>> THEN now ELSE timestamps[Len(timestamps)]
           /\ Invalidated(InvalidateEach(Walk(nodes, {}),
                                         InOrder(fileToModulesMap[file]), timestamps, FALSE),
                          [NoOp EXCEPT !.op = "onFileChange", !.file = file,
                                       !.timestamp = now'])

-----------------------------------------------------------------------------
(* File-only entries *)

\* constants.FS_PREFIX
FS_PREFIX == <<"/@fs">>

\* utils.normalizePath: backslash separators become slashes
normalizePath(file) ==
    [i \in DOMAIN file |-> IF file[i] = "\\c" THEN "/c" ELSE file[i]]

\* the files createFileOnlyEntry is called with
RawFiles == { <<"/R", "\\c", ".css">>, <<"/R", "/a", ".js">> }

\* variant: a node of the file is taken for its entry by its url alone
FileEntriesByUrl(file, url) ==
    IF Has(fileToModulesMap, file)
    THEN { m \in fileToModulesMap[file] : nodes[m].url = url }
    ELSE {}

\* the nodes of the file that createFileOnlyEntry takes for the entry of the file
FileEntries(file, url) ==
    IF Has(fileToModulesMap, file)
    THEN { m \in fileToModulesMap[file] : nodes[m].url = url \/ nodes[m].id = file }
    ELSE {}

FileOnlyEntry(file, url, found, fileMappedModules) ==
    /\ IF found # {}
       THEN /\ fileToModulesMap' = Put(fileToModulesMap, file, fileMappedModules)
            /\ UNCHANGED nodes
       ELSE /\ nodes' = Append(nodes, [ModuleNode(url, TRUE) EXCEPT !.file = file])
            /\ fileToModulesMap' =
                   Put(fileToModulesMap, file, fileMappedModules \cup {Len(nodes) + 1})
    /\ lastOp' = [NoOp EXCEPT !.op = "createFileOnlyEntry",
                              !.mod = IF found # {} THEN InOrder(found)[1] ELSE Len(nodes) + 1,
                              !.file = file]
    /\ UNCHANGED <<urlToModuleMap, idToModuleMap, unresolved, promises, resolveCalls,
                   calls, lookups, updates, now>>

\* createFileOnlyEntry(file)
CreateFileOnlyEntry(rawFile) ==
    FileOnlyEntry(normalizePath(rawFile), FS_PREFIX \o normalizePath(rawFile),
                  FileEntries(normalizePath(rawFile), FS_PREFIX \o normalizePath(rawFile)),
                  IF Has(fileToModulesMap, normalizePath(rawFile))
                  THEN fileToModulesMap[normalizePath(rawFile)] ELSE {})

-----------------------------------------------------------------------------
(* The transform pipeline and the ssr module loader, outside the graph *)

ArtifactFields == {"transformResult", "ssrTransformResult", "ssrModule", "ssrError"}

\* the pipeline caches an artifact on a node
StoreArtifact(mod, field) ==
    /\ ~nodes[mod][field]
    /\ nodes' = [nodes EXCEPT ![mod][field] = TRUE]
    /\ lastOp' = NoOp
    /\ UNCHANGED <<urlToModuleMap, idToModuleMap, fileToModulesMap, unresolved,
                   promises, resolveCalls, calls, lookups, updates, now>>

-----------------------------------------------------------------------------
(* The graph from its construction *)

Constructed ==
    [ nodes |-> <<>>,
      urlToModuleMap |-> [x \in {} |-> NoNode],
      idToModuleMap |-> [x \in {} |-> NoNode],
      fileToModulesMap |-> [x \in {} |-> {}],
      unresolved |-> [ssr \in BOOLEAN |-> [x \in {} |-> NodeEntry(NoNode)]],
      promises |-> <<>>,
      resolveCalls |-> [k \in Urls \X BOOLEAN |-> 0],
      calls |-> <<>> ]

InitFrom(s) ==
    /\ nodes = s.nodes
    /\ urlToModuleMap = s.urlToModuleMap
    /\ idToModuleMap = s.idToModuleMap
    /\ fileToModulesMap = s.fileToModulesMap
    /\ unresolved = s.unresolved
    /\ promises = s.promises
    /\ resolveCalls = s.resolveCalls
    /\ calls = s.calls
    /\ lookups = <<>>
    /\ updates = <<>>
    /\ now = 1
    /\ lastOp = NoOp

\* new ModuleGraph(resolveId)
Init == InitFrom(Constructed)

\* the sets of at most one element of S
AtMostOne(S) == {{}} \cup { {x} : x \in S }

\* the urls the browser and the ssr loader request
EnsureUrls == { <<"/a">>, <<"/a", ".js", "?", "t=1">>, <<"/b", ".js">> }

NextEnsure ==
    \/ \E u \in EnsureUrls, ssr \in BOOLEAN, sia \in BOOLEAN : EnsureEntryFromUrl(u, ssr, sia)
    \/ \E p \in DOMAIN promises : ResolveDone(p)
    \/ \E p \in DOMAIN promises : ResolveReject(p)
    \/ \E f \in RawFiles : CreateFileOnlyEntry(f)

\* the registry under ensureEntryFromUrl and createFileOnlyEntry calls from outside
Spec == Init /\ [][NextEnsure]_vars

\* the continuation of the p-th resolution: the resolver settles its promise and the
\* async body of _ensureEntryFromUrl, started eagerly, runs on from its await
Settle(p) ==
    /\ p \in DOMAIN promises
    /\ (ResolveReject(p) \/ ResolveDone(p))

\* ensureEntryFromUrl calls from outside and the resolutions they start
NextResolution ==
    \/ \E u \in EnsureUrls, ssr \in BOOLEAN : EnsureEntryFromUrl(u, ssr, TRUE)
    \/ \E p \in DOMAIN promises : ResolveDone(p)
    \/ \E p \in DOMAIN promises : ResolveReject(p)

\* the registry when every resolver call settles and the event loop runs every
\* continuation that is ready
SpecFair == Init /\ [][NextResolution]_vars /\ \A p \in 1..MaxCalls : WF_vars(Settle(p))

-----------------------------------------------------------------------------
(* The import graph of registered modules under updateModuleInfo *)

RegistryOf(s) ==
    [nodes |-> s.nodes, urlToModuleMap |-> s.urlToModuleMap,
     idToModuleMap |-> s.idToModuleMap, fileToModulesMap |-> s.fileToModulesMap,
     unresolved |-> s.unresolved, promises |-> s.promises]

RECURSIVE RegisterAll(_, _)
RECURSIVE RegisterNext(_, _, _)
RECURSIVE RegisterDone(_, _, _, _)
\* the graph after ensureEntryFromUrl(url) has been called and has returned for each
\* url of the sequence, one call after the other
RegisterAll(s, urls) ==
    IF urls = <<>>
    THEN s
    ELSE RegisterNext(s, urls, EnsureEntrySync(CachesOf(s), Head(urls), FALSE, TRUE))

RegisterNext(s, urls, r) ==
    RegisterDone(s, urls, r,
                 EnsureEntryResolved(RegistryOf(WithCaches(s, r.g)), Len(r.g.promises)))

RegisterDone(s, urls, r, g) ==
    RegisterAll([ nodes |-> g.nodes, urlToModuleMap |-> g.urlToModuleMap,
                  idToModuleMap |-> g.idToModuleMap,
                  fileToModulesMap |-> g.fileToModulesMap,
                  unresolved |-> g.unresolved, promises |-> g.promises,
                  resolveCalls |-> r.g.resolveCalls,
                  calls |-> Append(s.calls, [rawUrl |-> Head(urls), ssr |-> FALSE,
                                             entry |-> r.entry, hit |-> FALSE]) ],
                Tail(urls))

InitRegistered(urls) == InitFrom(RegisterAll(Constructed, urls))

\* the state after updateModuleInfo has been called with a, and has returned
AfterUpdate(s, a) == UpdateFromStart([nodes |-> s.nodes, promises |-> s.promises,
                                      resolveCalls |-> s.resolveCalls,
                                      unresolved |-> s.unresolved], a)

InitAfterUpdate(s, a) ==
    /\ nodes = AfterUpdate(s, a).w.nodes
    /\ urlToModuleMap = s.urlToModuleMap
    /\ idToModuleMap = s.idToModuleMap
    /\ fileToModulesMap = s.fileToModulesMap
    /\ unresolved = s.unresolved
    /\ promises = s.promises
    /\ resolveCalls = s.resolveCalls
    /\ calls = s.calls
    /\ lookups = <<>>
    /\ updates = <<AfterUpdate(s, a).c>>
    /\ now = 1
    /\ lastOp = NoOp

\* two modules the browser has requested; the ssr transform of the first has found
\* that it imports the second
InitUpdate ==
    InitAfterUpdate(RegisterAll(Constructed, << <<"/a", ".js">>, <<"/b", ".js">> >>),
                    [ mod |-> 1, ssr |-> TRUE, importedNodes |-> {2}, importedUrls |-> {},
                      acceptedNodes |-> {}, acceptedUrls |-> {},
                      importedBindings |-> "b1", acceptedExports |-> "e1",
                      isSelfAccepting |-> TRUE ])

\* the urls found in the imports of a module
ImportUrls == { <<"/c", ".css", "?", "inline">> }

\* the arguments updateModuleInfo is called with: a mix of node references and urls
UpdateArgs ==
    { a \in [ mod : NodeIds, ssr : BOOLEAN,
              importedNodes : AtMostOne(NodeIds), importedUrls : AtMostOne(ImportUrls),
              acceptedNodes : {{}}, acceptedUrls : AtMostOne(ImportUrls),
              importedBindings : {"b1"}, acceptedExports : {"e1"},
              isSelfAccepting : {TRUE} ] :
        a.acceptedUrls = a.importedUrls }

NextUpdate ==
    \/ Len(updates) < MaxUpdates /\ \E a \in UpdateArgs : UpdateModuleInfo(a)
    \/ \E p \in DOMAIN promises : ResolveDone(p)
    \/ \E p \in DOMAIN promises : ResolveReject(p)
    \/ \E c \in DOMAIN updates, u \in ImportUrls : ImportResolved(c, u)
    \/ \E c \in DOMAIN updates : ImportsAwaited(c)
    \/ \E c \in DOMAIN updates : AcceptedAwaited(c)
    \/ \E c \in DOMAIN updates : UpdateRejected(c)

SpecUpdate == InitUpdate /\ [][NextUpdate]_vars

-----------------------------------------------------------------------------
(* Invalidation of a graph of transformed modules *)

\* the nodes after the pipeline has cached every artifact on them
Cached(ns) ==
    [n \in DOMAIN ns |-> [ns[n] EXCEPT !.transformResult = TRUE, !.ssrTransformResult = TRUE,
                                       !.ssrModule = TRUE, !.ssrError = TRUE]]

\* three modules, requested and transformed
InitInval ==
    InitFrom([RegisterAll(Constructed, << <<"/a", ".js">>, <<"/b", ".js">>,
                                          <<"/c", ".css", "?", "inline">> >>)
                 EXCEPT !.nodes = Cached(@)])

\* updateModuleInfo with node references alone, as the import analysis of a module
\* whose imports are all resolved calls it
SyncUpdateArgs ==
    { a \in [ mod : NodeIds, ssr : {FALSE},
              importedNodes : SUBSET NodeIds, importedUrls : {{}},
              acceptedNodes : SUBSET NodeIds, acceptedUrls : {{}},
              importedBindings : {"b1"}, acceptedExports : {"e1"},
              isSelfAccepting : {TRUE} ] :
        a.acceptedNodes \subseteq a.importedNodes }

\* the modules are analysed in the order they were requested
AnalysedInOrder(a) == \A c \in DOMAIN updates : updates[c].mod < a.mod

\* the graph is built, then one invalidation runs on it
NextInval ==
    \/ /\ lastOp.op = "none"
       /\ Len(updates) < MaxGraphUpdates
       /\ \E a \in SyncUpdateArgs : AnalysedInOrder(a) /\ UpdateModuleInfo(a)
    \/ /\ lastOp.op = "none"
       /\ \E mod \in NodeIds, seen \in SmallSets, timestamp \in {1, MaxTime},
             isHmr \in BOOLEAN :
             \E hmrBoundaries \in {{}, {mod}} :
                InvalidateModule(mod, seen, timestamp, isHmr, hmrBoundaries)

SpecInval == InitInval /\ [][NextInval]_vars

\* the graph is built, then one invalidation runs on it with any list of boundaries
NextBoundary ==
    \/ /\ lastOp.op = "none"
       /\ Len(updates) < MaxGraphUpdates
       /\ \E a \in SyncUpdateArgs : AnalysedInOrder(a) /\ UpdateModuleInfo(a)
    \/ /\ lastOp.op = "none"
       /\ \E mod \in NodeIds, isHmr \in BOOLEAN, hmrBoundaries \in SUBSET NodeIds :
             InvalidateModule(mod, {}, MaxTime, isHmr, hmrBoundaries)

SpecBoundary == InitInval /\ [][NextBoundary]_vars

\* the operations that invalidate
WalkOps == {"invalidateModule", "invalidateAll", "onFileChange"}

\* a stylesheet requested plainly and with ?inline, both transformed: one file with
\* two modules
InitFile ==
    InitFrom([RegisterAll(Constructed, << <<"/c", ".css">>,
                                          <<"/c", ".css", "?", "inline">> >>)
                 EXCEPT !.nodes = Cached(@)])

\* a file-only entry is created, the graph is built, then one invalidation of any
\* kind runs on it
NextFile ==
    \/ /\ lastOp.op \in {"none", "createFileOnlyEntry"}
       /\ Len(nodes) = 2
       /\ updates = <<>>
       /\ \E rawFile \in RawFiles : CreateFileOnlyEntry(rawFile)
    \/ /\ lastOp.op \notin WalkOps
       /\ Len(updates) < MaxGraphUpdates
       /\ \E a \in SyncUpdateArgs : AnalysedInOrder(a) /\ UpdateModuleInfo(a)
    \/ /\ lastOp.op \notin WalkOps
       /\ \E mod \in NodeIds, seen \in SmallSets, timestamp \in {1, MaxTime},
             isHmr \in BOOLEAN :
             InvalidateModule(mod, seen, timestamp, isHmr, {})
    \/ /\ lastOp.op \notin WalkOps
       /\ InvalidateAll
    \/ /\ lastOp.op \notin WalkOps
       /\ \E file \in DOMAIN fileToModulesMap : OnFileChange(file)

SpecFile == InitFile /\ [][NextFile]_vars

\* two transformed modules, the first importing the second
InitStamp ==
    InitAfterUpdate([RegisterAll(Constructed, << <<"/a", ".js">>, <<"/b", ".js">> >>)
                        EXCEPT !.nodes = Cached(@)],
                    [ mod |-> 1, ssr |-> FALSE, importedNodes |-> {2}, importedUrls |-> {},
                      acceptedNodes |-> {}, acceptedUrls |-> {},
                      importedBindings |-> "b1", acceptedExports |-> "e1",
                      isSelfAccepting |-> TRUE ])

\* invalidations of every kind, one after the other; the callers of invalidateModule
\* pass the timestamp they have
NextStamp ==
    \/ \E mod \in NodeIds, timestamp \in 1..MaxTime, isHmr \in BOOLEAN :
          InvalidateModule(mod, {}, timestamp, isHmr, {})
    \/ InvalidateAll
    \/ \E file \in DOMAIN fileToModulesMap : OnFileChange(file)

SpecStamp == InitStamp /\ [][NextStamp]_vars

\* a module and a stylesheet requested plainly and with ?inline, all transformed; the
\* module imports both stylesheet modules, which are of one file
InitUpward ==
    InitAfterUpdate([RegisterAll(Constructed, << <<"/a", ".js">>, <<"/c", ".css">>,
                                                 <<"/c", ".css", "?", "inline">> >>)
                        EXCEPT !.nodes = Cached(@)],
                    [ mod |-> 1, ssr |-> FALSE, importedNodes |-> {2, 3}, importedUrls |-> {},
                      acceptedNodes |-> {}, acceptedUrls |-> {},
                      importedBindings |-> "b1", acceptedExports |-> "e1",
                      isSelfAccepting |-> FALSE ])

\* modules are invalidated, for HMR or not, and files change, one after the other
NextUpward ==
    \/ \E mod \in NodeIds, timestamp \in 1..MaxTime, isHmr \in BOOLEAN :
          InvalidateModule(mod, {}, timestamp, isHmr, {})
    \/ \E file \in DOMAIN fileToModulesMap : OnFileChange(file)

SpecUpward == InitUpward /\ [][NextUpward]_vars

\* two transformed modules, the first importing the second and accepting its updates
InitAccepted ==
    InitAfterUpdate([RegisterAll(Constructed, << <<"/a", ".js">>, <<"/b", ".js">> >>)
                        EXCEPT !.nodes = Cached(@)],
                    [ mod |-> 1, ssr |-> FALSE, importedNodes |-> {2}, importedUrls |-> {},
                      acceptedNodes |-> {2}, acceptedUrls |-> {},
                      importedBindings |-> "b1", acceptedExports |-> "e1",
                      isSelfAccepting |-> FALSE ])

\* the artifacts the pipeline stores again after an invalidation
StoredFields == {"transformResult", "ssrError"}

\* modules are invalidated one by one, for HMR or not, or all at once, and the
\* pipeline transforms them again
NextAll ==
    \/ \E mod \in NodeIds, timestamp \in 1..MaxTime, isHmr \in BOOLEAN :
          InvalidateModule(mod, {}, timestamp, isHmr, {})
    \/ InvalidateAll
    \/ \E mod \in NodeIds, field \in StoredFields : StoreArtifact(mod, field)

SpecAll == InitAccepted /\ [][NextAll]_vars

\* the urls ensured: a module, and a url the resolver has no answer for
EnsuredUrls == { <<"/a", ".js">>, <<"/n", ".js">> }
\* the urls looked up: the module, with a timestamp query, and an alias of it that
\* is never ensured
LookupUrls == { <<"/a", ".js", "?", "t=1">>, <<"/x", ".js">> }
\* the urls resolved
ResolvedUrls == { <<"/a", ".js">>, <<"/n", ".js">> }
\* the ids asked for: of the module, with a timestamp query, and of nothing
LookupIds == { <<"/R", "/a", ".js", "?", "t=1">>, <<"/R", "/b", ".js">> }
\* the files asked for
LookupFiles == { <<"/R", "/a", ".js">> }

\* entries are ensured and looked up while resolutions are in flight
NextLookup ==
    \/ \E rawUrl \in EnsuredUrls : EnsureEntryFromUrl(rawUrl, FALSE, TRUE)
    \/ \E p \in DOMAIN promises : ResolveDone(p)
    \/ \E p \in DOMAIN promises : ResolveReject(p)
    \/ \E rawUrl \in LookupUrls : GetModuleByUrl(rawUrl, FALSE)
    \/ \E rawUrl \in ResolvedUrls : ResolveUrl(rawUrl, FALSE)
    \/ \E id \in LookupIds : GetModuleById(id)
    \/ \E file \in LookupFiles : GetModulesByFile(file)
    \/ \E l \in DOMAIN lookups : CacheAwaited(l)
    \/ \E l \in DOMAIN lookups : LookupResolved(l)
    \/ \E l \in DOMAIN lookups : LookupRejected(l)

SpecLookup == Init /\ [][NextLookup]_vars

\* the urls ensured: a module without and with its extension, and an alias of it
ExtEnsuredUrls == { <<"/a">>, <<"/a", ".js">>, <<"/x", ".js">> }
\* the urls resolved: the module without and with its extension, without its
\* extension and with a query, and a virtual module
ExtResolvedUrls ==
    { <<"/a">>, <<"/a", ".js">>, <<"/a", "?", "q=1">>, <<"virtual:", "v">> }

\* urls are ensured and resolved, with and without their extension
NextExt ==
    \/ \E rawUrl \in ExtEnsuredUrls : EnsureEntryFromUrl(rawUrl, FALSE, TRUE)
    \/ \E p \in DOMAIN promises : ResolveDone(p)
    \/ \E rawUrl \in ExtResolvedUrls : ResolveUrl(rawUrl, FALSE)
    \/ \E l \in DOMAIN lookups : CacheAwaited(l)
    \/ \E l \in DOMAIN lookups : LookupResolved(l)

SpecExt == Init /\ [][NextExt]_vars

\* a stylesheet that was requested, transformed and evaluated for ssr with an error
InitFrame ==
    InitFrom([RegisterAll(Constructed, << <<"/c", ".css">> >>)
                 EXCEPT !.nodes = Cached(@)])

FrameEnsuredUrls == { <<"/a">> }
FrameLookupUrls == { <<"/c", ".css", "?", "inline">> }
FrameResolvedUrls == { <<"/c", ".css">> }
FrameIds == { <<"/R", "/c", ".css">> }
FrameFiles == { <<"/R", "\\c", ".css">> }

\* the imports of a module analysed: a registered node or a url
FrameUpdateArgs ==
    { a \in [ mod : NodeIds, ssr : {FALSE},
              importedNodes : AtMostOne(NodeIds), importedUrls : AtMostOne(ImportUrls),
              acceptedNodes : {{}}, acceptedUrls : AtMostOne(ImportUrls),
              importedBindings : {"b1"}, acceptedExports : {"e1"},
              isSelfAccepting : {TRUE} ] :
        /\ a.importedNodes = {} \/ a.importedUrls = {}
        /\ a.acceptedUrls = a.importedUrls }

\* every operation of the graph runs on cached modules: one more module is ensured,
\* one module is analysed, file-only entries are created, urls, ids and files are
\* looked up, and a module is invalidated before the lookups
NextFrame ==
    \/ \E rawUrl \in FrameEnsuredUrls : EnsureEntryFromUrl(rawUrl, FALSE, TRUE)
    \/ \E p \in DOMAIN promises : ResolveDone(p)
    \/ updates = <<>> /\ \E a \in FrameUpdateArgs : UpdateModuleInfo(a)
    \/ \E c \in DOMAIN updates, u \in ImportUrls : ImportResolved(c, u)
    \/ \E c \in DOMAIN updates : ImportsAwaited(c)
    \/ \E c \in DOMAIN updates : AcceptedAwaited(c)
    \/ \E rawFile \in FrameFiles : CreateFileOnlyEntry(rawFile)
    \/ \E rawUrl \in FrameLookupUrls : GetModuleByUrl(rawUrl, FALSE)
    \/ \E rawUrl \in FrameResolvedUrls : ResolveUrl(rawUrl, FALSE)
    \/ \E id \in FrameIds : GetModuleById(id)
    \/ \E file \in FrameIds : GetModulesByFile(file)
    \/ \E l \in DOMAIN lookups : CacheAwaited(l)
    \/ \E l \in DOMAIN lookups : LookupResolved(l)
    \/ /\ lastOp.op \notin WalkOps
       /\ lookups = <<>>
       /\ \E mod \in NodeIds : InvalidateModule(mod, {}, MaxTime, FALSE, {})

SpecFrame == InitFrame /\ [][NextFrame]_vars

\* three modules, the second importing the first
InitRace ==
    InitAfterUpdate(RegisterAll(Constructed,
                                << <<"/a", ".js">>, <<"/b", ".js">>, <<"/c", ".css">> >>),
                    [ mod |-> 2, ssr |-> FALSE, importedNodes |-> {1}, importedUrls |-> {},
                      acceptedNodes |-> {}, acceptedUrls |-> {},
                      importedBindings |-> "b1", acceptedExports |-> "e1",
                      isSelfAccepting |-> TRUE ])

\* the urls found in the imports: another url of the first module, and a new module
RaceUrls == { <<"/x", ".js">>, <<"/c", ".css", "?", "inline">> }

RaceArgs ==
    { a \in [ mod : NodeIds, ssr : {FALSE},
              importedNodes : {{}}, importedUrls : AtMostOne(RaceUrls),
              acceptedNodes : {{}}, acceptedUrls : AtMostOne(RaceUrls),
              importedBindings : {"b1"}, acceptedExports : {"e1"},
              isSelfAccepting : {TRUE} ] :
        a.acceptedUrls = a.importedUrls }

\* the modules of a batch are analysed at once, each importing through a url
NextRace ==
    \/ Len(updates) < MaxUpdates /\ \E a \in RaceArgs : UpdateModuleInfo(a)
    \/ \E p \in DOMAIN promises : ResolveDone(p)
    \/ \E c \in DOMAIN updates, u \in RaceUrls : ImportResolved(c, u)
    \/ \E c \in DOMAIN updates : ImportsAwaited(c)
    \/ \E c \in DOMAIN updates : AcceptedAwaited(c)

SpecRace == InitRace /\ [][NextRace]_vars

\* one module is registered
InitNested == InitFrom(RegisterAll(Constructed, << <<"/a", ".js">> >>))

NestedEnsuredUrls == { <<"/b", ".js">> }
NestedFiles == { <<"/R", "\\c", ".css">> }
\* the calls made before the first state
InitNestedCalls == RegisterAll(Constructed, << <<"/a", ".js">> >>).calls

\* the imports of the first module analysed: another registered node or a url
NestedArgs ==
    { a \in [ mod : {1}, ssr : BOOLEAN,
              importedNodes : AtMostOne(NodeIds \ {1}), importedUrls : AtMostOne(ImportUrls),
              acceptedNodes : {{}}, acceptedUrls : AtMostOne(ImportUrls),
              importedBindings : {"b1"}, acceptedExports : {"e1"},
              isSelfAccepting : {TRUE} ] :
        a.acceptedUrls = a.importedUrls }

\* every call of updateModuleInfo started after the call c has returned
Innermost(c) == \A c2 \in DOMAIN updates : c2 > c => updates[c2].pc = "returned"

\* calls of updateModuleInfo that are nested: a call made while another is suspended
\* returns before the suspended call runs on. A module is ensured and a file-only
\* entry created before the calls, and a module is invalidated after them.
NextNested ==
    \/ Len(updates) < MaxGraphUpdates /\ \E a \in NestedArgs : UpdateModuleInfo(a)
    \/ \E p \in DOMAIN promises : ResolveDone(p)
    \/ \E c \in DOMAIN updates, u \in ImportUrls : Innermost(c) /\ ImportResolved(c, u)
    \/ \E c \in DOMAIN updates : Innermost(c) /\ ImportsAwaited(c)
    \/ \E c \in DOMAIN updates : Innermost(c) /\ AcceptedAwaited(c)
    \/ updates = <<>> /\ \E rawUrl \in NestedEnsuredUrls : EnsureEntryFromUrl(rawUrl, FALSE, TRUE)
    \/ /\ updates = <<>>
       /\ calls = InitNestedCalls
       /\ \E rawFile \in NestedFiles : CreateFileOnlyEntry(rawFile)
    \/ /\ lastOp.op \notin WalkOps
       /\ Len(updates) = MaxGraphUpdates
       /\ \A c \in DOMAIN updates : updates[c].pc = "returned"
       /\ \E mod \in NodeIds : InvalidateModule(mod, {}, MaxTime, FALSE, {})

SpecNested == InitNested /\ [][NextNested]_vars

-----------------------------------------------------------------------------
(* Properties of ensureEntryFromUrl *)

\* the url a call is cached and resolved under
NormalizedUrl(call) == removeImportQuery(removeTimestampQuery(call.rawUrl))

\* what the resolver answers a call
ResolverAnswer(call) == ResolveId(NormalizedUrl(call), call.ssr)

SameResolvedId(c1, c2) ==
    /\ ~ResolverAnswer(c1).null
    /\ ~ResolverAnswer(c2).null
    /\ ResolverAnswer(c1).id = ResolverAnswer(c2).id

\* C1: any two ensureEntryFromUrl calls that have completed and whose urls the resolver
\* answers with the same id (same or different raw urls, one after the other or
\* overlapping, client or ssr) have returned the same node.
C1_SameIdSameNode ==
    \A i, j \in DOMAIN calls :
        ( /\ Fulfilled(calls[i].entry)
          /\ Fulfilled(calls[j].entry)
          /\ SameResolvedId(calls[i], calls[j]) )
        => ValueOf(calls[i].entry) = ValueOf(calls[j].entry)

\* two overlapping calls, of different raw urls and different ssr flags, have completed
\* with the node of their common id
C1_Witness ==
    \E i, j \in DOMAIN calls :
        /\ calls[i].rawUrl # calls[j].rawUrl
        /\ calls[i].ssr # calls[j].ssr
        /\ SameResolvedId(calls[i], calls[j])
        /\ calls[i].entry.kind = "promise"
        /\ calls[j].entry.kind = "promise"
        /\ Fulfilled(calls[i].entry)
        /\ Fulfilled(calls[j].entry)
        /\ ValueOf(calls[i].entry) = ValueOf(calls[j].entry)
        /\ nodes[ValueOf(calls[i].entry)].id = ResolverAnswer(calls[i]).id

\* C2: of the calls for one url and one ssr flag, a call that starts before an earlier
\* one has completed is handed the promise of the earlier one, so all of them receive
\* the same node, and the resolver has been invoked exactly once for that url.
C2_OneResolverCall ==
    \A i, j \in DOMAIN calls :
        ( /\ i < j
          /\ NormalizedUrl(calls[i]) = NormalizedUrl(calls[j])
          /\ calls[i].ssr = calls[j].ssr
          /\ calls[j].entry.kind = "promise" )
        => /\ calls[j].entry = calls[i].entry
           /\ resolveCalls[<<NormalizedUrl(calls[i]), calls[i].ssr>>] = 1

\* a second call for the same raw url started while the first was in flight, and both
\* have received the node
C2_Witness ==
    \E i, j \in DOMAIN calls :
        /\ i < j
        /\ calls[i].rawUrl = calls[j].rawUrl
        /\ calls[i].ssr = calls[j].ssr
        /\ calls[j].hit
        /\ calls[j].entry.kind = "promise"
        /\ Fulfilled(calls[j].entry)
        /\ ValueOf(calls[j].entry) = ValueOf(calls[i].entry)
        /\ resolveCalls[<<NormalizedUrl(calls[i]), calls[i].ssr>>] = 1

\* C3: no two nodes have the same non-null id, and idToModuleMap maps every such id to
\* the one node whose id it is, whatever calls are in flight.
C3_IdUnique ==
    /\ \A m, n \in NodeIds :
           (nodes[m].id # NoId /\ nodes[m].id = nodes[n].id) => m = n
    /\ \A id \in DOMAIN idToModuleMap : nodes[idToModuleMap[id]].id = id
    /\ \A n \in NodeIds :
           nodes[n].id # NoId =>
               (Has(idToModuleMap, nodes[n].id) /\ idToModuleMap[nodes[n].id] = n)

\* the client and the ssr resolution of one url have both ended on the node of their
\* common id, while an updateModuleInfo call is still in flight
C3_Witness ==
    /\ \E p, q \in DOMAIN promises :
           /\ promises[p].ssr # promises[q].ssr
           /\ promises[p].rawUrl = promises[q].rawUrl
           /\ promises[p].state = "fulfilled"
           /\ promises[q].state = "fulfilled"
           /\ promises[p].value = promises[q].value
           /\ idToModuleMap[nodes[promises[p].value].id] = promises[p].value
    /\ \E c \in DOMAIN updates : updates[c].pc \in {"imports", "accepted"}

-----------------------------------------------------------------------------
(* Properties of updateModuleInfo *)

\* the step in which the call c replaces the edge set of its node
Applies(c) ==
    /\ updates'[c].pc \in {"accepted", "returned"}
    /\ IF c \in DOMAIN updates THEN updates[c].pc = "imports" ELSE TRUE

\* the step in which the call c returns
Returns(c) ==
    /\ updates'[c].pc = "returned"
    /\ IF c \in DOMAIN updates THEN updates[c].pc # "returned" ELSE TRUE

\* the edge set of the direction of the call c, and of the other direction
EdgesInDirection(n, c) ==
    IF c.ssr THEN n.ssrImportedModules ELSE n.clientImportedModules
EdgesInOtherDirection(n, c) ==
    IF c.ssr THEN n.clientImportedModules ELSE n.ssrImportedModules

\* another call for the same node, with dep among its previous imports, has passed
\* its own replacement of the edge set
DroppedByAnother(us, c, dep) ==
    \E c2 \in DOMAIN us :
        /\ c2 # c
        /\ us[c2].mod = us[c].mod
        /\ dep \in us[c2].prevImports
        /\ us[c2].pc # "imports"

C5_ImportersAreTranspose ==
    (\A c \in DOMAIN updates : updates[c].pc \notin {"imports", "accepted"})
    => \A m, dep \in NodeIds :
           m \in nodes[dep].importers <=> dep \in importedModules(nodes[m])

\* C6 as stated: while a call is suspended on a resolution of its dependencies, none of
\* its mutations is applied: a node is among the importers of those it imports only.
C6_Original ==
    \A c \in DOMAIN updates :
        ( /\ updates[c].pc = "imports"
          /\ \E u \in updates[c].importedUrls : ~Settled(updates[c].entries[u]) )
        => \A dep \in NodeIds :
               updates[c].mod \in nodes[dep].importers
                   => dep \in importedModules(nodes[updates[c].mod])

\* C6: an edge set of a node changes only in the step in which an updateModuleInfo call
\* for that node, all of whose dependency resolutions have completed, replaces it with
\* the whole resolved set; the importers are not held back in this way (the call adds
\* the node to the importers of a node reference before it suspends, and of a url as
\* soon as it resolves).
C6_EdgeSetReplacedAfterResolution ==
    [][\A n \in NodeIds :
          ( \/ nodes'[n].clientImportedModules # nodes[n].clientImportedModules
            \/ nodes'[n].ssrImportedModules # nodes[n].ssrImportedModules )
          => \E c \in DOMAIN updates' :
                 /\ updates'[c].mod = n
                 /\ Applies(c)
                 /\ updates'[c].done = updates'[c].importedUrls
                 /\ \A u \in updates'[c].importedUrls :
                        ValueIn(promises', updates'[c].entries[u]) \in DOMAIN nodes'
                 /\ EdgesInDirection(nodes'[n], updates'[c])
                        = NextImports(promises', updates'[c])
                 /\ EdgesInOtherDirection(nodes'[n], updates'[c])
                        = EdgesInOtherDirection(nodes[n], updates'[c])]_vars

\* a call is suspended on a pending resolution: its node is already among the importers
\* of a dependency passed as a node, and the edge sets of its node do not hold it yet
C6_Witness ==
    \E c \in DOMAIN updates :
        /\ updates[c].pc = "imports"
        /\ \E u \in updates[c].importedUrls : ~Settled(updates[c].entries[u])
        /\ \E dep \in updates[c].importedNodes :
               /\ updates[c].mod \in nodes[dep].importers
               /\ dep \notin importedModules(nodes[updates[c].mod])

-----------------------------------------------------------------------------
(* Properties of invalidateModule *)

\* the step is a call of invalidateModule from outside
InvalidateStep == lastOp.op = "none" /\ lastOp'.op = "invalidateModule"

\* the fields of a node the transform pipeline caches
Artifacts(n) == <<n.transformResult, n.ssrTransformResult, n.ssrModule, n.ssrError>>

\* the fields of a node that hold the import relation, the HMR acceptance and what
\* the plugins have recorded
Bookkeeping(n) ==
    <<n.importers, n.clientImportedModules, n.ssrImportedModules, n.acceptedHmrDeps,
      n.acceptedHmrExports, n.importedBindings, n.isSelfAccepting, n.info, n.meta>>

RECURSIVE NonAcceptingClosure(_, _)
\* the nodes reachable from the nodes R along importer edges whose importer does not
\* accept the node it imports
NonAcceptingClosure(ns, R) ==
    IF \A i \in DOMAIN ns :
           (\E dep \in R : i \in ns[dep].importers /\ dep \notin ns[i].acceptedHmrDeps)
               => i \in R
    THEN R
    ELSE NonAcceptingClosure(ns,
             R \cup { i \in DOMAIN ns :
                         \E dep \in R : /\ i \in ns[dep].importers
                                         /\ dep \notin ns[i].acceptedHmrDeps })

\* C7: invalidateModule(node) on a node that is not in seen leaves the four cached
\* artifacts of the node null, and leaves importers, both edge sets, acceptedHmrDeps,
\* acceptedHmrExports, importedBindings, isSelfAccepting, info and meta of every node as
\* they were.
C7_ClearsArtifactsKeepsEdges ==
    [][(InvalidateStep /\ lastOp'.mod \notin lastOp'.given) =>
          /\ Artifacts(nodes'[lastOp'.mod]) = <<FALSE, FALSE, FALSE, FALSE>>
          /\ DOMAIN nodes' = DOMAIN nodes
          /\ \A n \in NodeIds : Bookkeeping(nodes'[n]) = Bookkeeping(nodes[n])]_vars

\* a node with importers, imports and accepted dependencies has been invalidated: its
\* artifacts are gone and its edges are still there
C7_Witness ==
    /\ lastOp.op = "invalidateModule"
    /\ lastOp.mod \notin lastOp.given
    /\ Artifacts(nodes[lastOp.mod]) = <<FALSE, FALSE, FALSE, FALSE>>
    /\ nodes[lastOp.mod].importers # {}
    /\ nodes[lastOp.mod].clientImportedModules # {}
    /\ nodes[lastOp.mod].acceptedHmrDeps # {}

\* C8 as stated: when X is invalidated with isHmr = true and timestamp t, every importer
\* Y of X that accepts X gets lastHMRTimestamp = t.
C8_Original ==
    [][( /\ InvalidateStep
         /\ lastOp'.isHmr
         /\ lastOp'.given = {}
         /\ lastOp'.hmrBoundaries = {} ) =>
          \A Y \in nodes[lastOp'.mod].importers :
              lastOp'.mod \in nodes[Y].acceptedHmrDeps
                  => nodes'[Y].lastHMRTimestamp = lastOp'.timestamp]_vars

\* C8: when X, not in seen, is invalidated with isHmr = true and timestamp t, X gets
\* lastHMRTimestamp = t, and the walk stops at every importer Y of X that accepts X:
\* unless Y is X or is reached along another path of non-accepting importers,
\* Y.lastHMRTimestamp keeps its value, and the importers of Y that are not reached
\* along such a path are untouched.
C8_StopsAtAcceptingImporter ==
    [][( /\ InvalidateStep
         /\ lastOp'.isHmr
         /\ lastOp'.mod \notin lastOp'.given ) =>
          /\ nodes'[lastOp'.mod].lastHMRTimestamp = lastOp'.timestamp
          /\ \A Y \in nodes[lastOp'.mod].importers :
                 ( /\ lastOp'.mod \in nodes[Y].acceptedHmrDeps
                   /\ Y \notin NonAcceptingClosure(nodes, {lastOp'.mod}) )
                 => /\ nodes'[Y].lastHMRTimestamp = nodes[Y].lastHMRTimestamp
                    /\ \A A \in nodes[Y].importers :
                           A \notin NonAcceptingClosure(nodes, {lastOp'.mod})
                               => nodes'[A] = nodes[A]]_vars

\* the chain A imports B imports C, where B accepts C: C has been invalidated with
\* isHmr = true, C has the timestamp, B and A have neither it nor lost an artifact
C8_Witness ==
    /\ lastOp.op = "invalidateModule"
    /\ lastOp.isHmr
    /\ lastOp.given = {}
    /\ nodes[lastOp.mod].lastHMRTimestamp = lastOp.timestamp
    /\ \E Y \in nodes[lastOp.mod].importers \ {lastOp.mod} :
           /\ lastOp.mod \in nodes[Y].acceptedHmrDeps
           /\ nodes[Y].lastHMRTimestamp = 0
           /\ nodes[Y].transformResult
           /\ \E A \in nodes[Y].importers \ {lastOp.mod, Y} :
                  /\ nodes[A].lastHMRTimestamp = 0
                  /\ nodes[A].transformResult

\* C9: an importer that accepts a node the walk invalidates is not invalidated through
\* that edge: unless it is the start node or is reached along another path of
\* non-accepting importers, the walk does not visit it, and its artifacts and timestamps
\* are as they were.
C9_AcceptingImporterUntouched ==
    [][InvalidateStep =>
          \A dep \in lastOp'.seen \ lastOp'.given :
              \A Y \in nodes[dep].importers :
                  ( /\ dep \in nodes[Y].acceptedHmrDeps
                    /\ Y \notin NonAcceptingClosure(nodes, {lastOp'.mod}) )
                  => /\ Y \notin lastOp'.seen \ lastOp'.given
                     /\ nodes'[Y] = nodes[Y]]_vars

\* a node with two importers has been invalidated: the importer that does not accept
\* it has lost its artifacts, the importer that accepts it has kept them
C9_Witness ==
    /\ lastOp.op = "invalidateModule"
    /\ ~lastOp.isHmr
    /\ \E Y, Z \in nodes[lastOp.mod].importers \ {lastOp.mod} :
           /\ lastOp.mod \in nodes[Y].acceptedHmrDeps
           /\ Y \notin lastOp.seen
           /\ Artifacts(nodes[Y]) = <<TRUE, TRUE, TRUE, TRUE>>
           /\ nodes[Y].lastInvalidationTimestamp = 0
           /\ lastOp.mod \notin nodes[Z].acceptedHmrDeps
           /\ Z \in lastOp.seen
           /\ Artifacts(nodes[Z]) = <<FALSE, FALSE, FALSE, FALSE>>
           /\ nodes[Z].lastInvalidationTimestamp = lastOp.timestamp

\* C10: invalidateModule(n) with an empty seen and no hmrBoundaries clears the artifacts
\* and sets the timestamp, with the same timestamp and isHmr at every level, of exactly
\* the nodes reachable from n along importer edges whose importer does not accept the
\* node it imports; every other node is as it was.
C10_ExactlyTheNonAcceptingClosure ==
    [][( /\ InvalidateStep
         /\ lastOp'.given = {}
         /\ lastOp'.hmrBoundaries = {} ) =>
          /\ lastOp'.seen = NonAcceptingClosure(nodes, {lastOp'.mod})
          /\ \A n \in NodeIds :
                 nodes'[n] =
                     IF n \in NonAcceptingClosure(nodes, {lastOp'.mod})
                     THEN [nodes[n] EXCEPT
                             !.transformResult = FALSE,
                             !.ssrTransformResult = FALSE,
                             !.ssrModule = FALSE,
                             !.ssrError = FALSE,
                             !.lastHMRTimestamp =
                                 IF lastOp'.isHmr THEN lastOp'.timestamp ELSE @,
                             !.lastInvalidationTimestamp =
                                 IF lastOp'.isHmr THEN @ ELSE lastOp'.timestamp]
                     ELSE nodes[n]]_vars

\* an invalidation has gone two levels up the importers and has stopped below a node
\* that accepts the one it imports
C10_Witness ==
    /\ lastOp.op = "invalidateModule"
    /\ lastOp.given = {}
    /\ lastOp.hmrBoundaries = {}
    /\ Cardinality(lastOp.seen) = 2
    /\ \A n \in lastOp.seen : Artifacts(nodes[n]) = <<FALSE, FALSE, FALSE, FALSE>>
    /\ \E n \in NodeIds \ lastOp.seen :
           /\ Artifacts(nodes[n]) = <<TRUE, TRUE, TRUE, TRUE>>
           /\ \E dep \in lastOp.seen : /\ n \in nodes[dep].importers
                                        /\ dep \in nodes[n].acceptedHmrDeps

\* C11: invalidateModule(node) with node listed in hmrBoundaries and not in seen clears
\* the artifacts of node and sets its timestamp, and invalidates no importer of node,
\* accepting or not: node is the one node the call processes and every other node is as
\* it was.
C11_BoundaryStopsWalk ==
    [][( /\ InvalidateStep
         /\ lastOp'.mod \in lastOp'.hmrBoundaries
         /\ lastOp'.mod \notin lastOp'.given ) =>
          /\ Artifacts(nodes'[lastOp'.mod]) = <<FALSE, FALSE, FALSE, FALSE>>
          /\ IF lastOp'.isHmr
             THEN nodes'[lastOp'.mod].lastHMRTimestamp = lastOp'.timestamp
             ELSE nodes'[lastOp'.mod].lastInvalidationTimestamp = lastOp'.timestamp
          /\ lastOp'.visited = <<lastOp'.mod>>
          /\ lastOp'.seen = lastOp'.given \cup {lastOp'.mod}
          /\ \A n \in NodeIds \ {lastOp'.mod} : nodes'[n] = nodes[n]]_vars

\* a boundary with an importer that accepts it and one that does not has been
\* invalidated: it has lost its artifacts, both importers have kept theirs
C11_Witness ==
    /\ lastOp.op = "invalidateModule"
    /\ lastOp.mod \in lastOp.hmrBoundaries
    /\ lastOp.given = {}
    /\ Artifacts(nodes[lastOp.mod]) = <<FALSE, FALSE, FALSE, FALSE>>
    /\ \E Y, Z \in nodes[lastOp.mod].importers \ {lastOp.mod} :
           /\ lastOp.mod \in nodes[Y].acceptedHmrDeps
           /\ lastOp.mod \notin nodes[Z].acceptedHmrDeps
           /\ Artifacts(nodes[Y]) = <<TRUE, TRUE, TRUE, TRUE>>
           /\ Artifacts(nodes[Z]) = <<TRUE, TRUE, TRUE, TRUE>>
           /\ nodes[Z].lastHMRTimestamp = 0
           /\ nodes[Z].lastInvalidationTimestamp = 0

\* C20: an invalidation with isHmr = true sets lastHMRTimestamp of every node it
\* processes, at whatever depth, to the timestamp of the call and leaves its
\* lastInvalidationTimestamp as it was; with isHmr = false it sets
\* lastInvalidationTimestamp and leaves lastHMRTimestamp as it was.
C20_OneTimestampFieldPerFlag ==
    [][InvalidateStep =>
          \A i \in 1..Len(lastOp'.visited) :
              LET n == lastOp'.visited[i]
              IN  IF lastOp'.isHmr
                  THEN /\ nodes'[n].lastHMRTimestamp = lastOp'.timestamp
                       /\ nodes'[n].lastInvalidationTimestamp
                              = nodes[n].lastInvalidationTimestamp
                  ELSE /\ nodes'[n].lastInvalidationTimestamp = lastOp'.timestamp
                       /\ nodes'[n].lastHMRTimestamp = nodes[n].lastHMRTimestamp]_vars

\* an HMR invalidation has processed three nodes, two of them through the recursion:
\* all three have the timestamp in lastHMRTimestamp and none in
\* lastInvalidationTimestamp
C20_Witness ==
    /\ lastOp.op = "invalidateModule"
    /\ lastOp.isHmr
    /\ lastOp.timestamp = MaxTime
    /\ Len(lastOp.visited) = 3
    /\ \A i \in 1..3 :
           /\ nodes[lastOp.visited[i]].lastHMRTimestamp = MaxTime
           /\ nodes[lastOp.visited[i]].lastInvalidationTimestamp = 0

\* a step that runs the invalidation op on a graph no invalidation has run on
WalkStep(op) == lastOp.op \notin WalkOps /\ lastOp'.op = op

\* the number of times a walk has processed the node n
Processed(visited, n) == Cardinality({ i \in DOMAIN visited : visited[i] = n })

\* the nodes of the id index and the nodes of the file index
InIdIndex == { idToModuleMap[id] : id \in DOMAIN idToModuleMap }
InFileIndex == UNION { fileToModulesMap[f] : f \in DOMAIN fileToModulesMap }

\* C12 as stated: invalidateAll() processes every registered node, the nodes that
\* createFileOnlyEntry has registered in the file index alone included, exactly once,
\* and leaves it without artifacts, whatever the graph.
C12_Original ==
    [][WalkStep("invalidateAll") =>
          \A n \in InIdIndex \cup InFileIndex :
              /\ Processed(lastOp'.visited, n) = 1
              /\ Artifacts(nodes'[n]) = <<FALSE, FALSE, FALSE, FALSE>>]_vars

\* C12: invalidateAll() processes every node of the id index exactly once, whatever
\* cycles, diamonds and acceptance the graph has: the node is left without artifacts
\* and with the one timestamp of the call. A node that is in the file index alone is
\* processed, once, when it is reached from a node of the id index along non-accepting
\* importer edges, and is as it was otherwise.
C12_ClearsIdIndexOnce ==
    [][WalkStep("invalidateAll") =>
          /\ \A n \in InIdIndex :
                 /\ Processed(lastOp'.visited, n) = 1
                 /\ Artifacts(nodes'[n]) = <<FALSE, FALSE, FALSE, FALSE>>
                 /\ nodes'[n].lastInvalidationTimestamp = lastOp'.timestamp
          /\ \A n \in NodeIds \ InIdIndex :
                 IF n \in NonAcceptingClosure(nodes, InIdIndex)
                 THEN /\ Processed(lastOp'.visited, n) = 1
                      /\ nodes'[n].lastInvalidationTimestamp = lastOp'.timestamp
                 ELSE /\ Processed(lastOp'.visited, n) = 0
                      /\ nodes'[n] = nodes[n]]_vars

\* invalidateAll() has run on a graph where the two modules of the id index import
\* each other, one accepting the other, and import a file-only node: both have lost
\* their artifacts and have the timestamp, the file-only node has not been processed
C12_Witness ==
    /\ lastOp.op = "invalidateAll"
    /\ lastOp.timestamp = MaxTime
    /\ Len(lastOp.visited) = 2
    /\ \E m, n \in InIdIndex :
           /\ m # n
           /\ n \in nodes[m].importers
           /\ m \in nodes[n].importers
           /\ m \in nodes[n].acceptedHmrDeps
           /\ Artifacts(nodes[m]) = <<FALSE, FALSE, FALSE, FALSE>>
           /\ Artifacts(nodes[n]) = <<FALSE, FALSE, FALSE, FALSE>>
           /\ nodes[m].lastInvalidationTimestamp = MaxTime
           /\ nodes[n].lastInvalidationTimestamp = MaxTime
    /\ \E f \in InFileIndex \ InIdIndex :
           /\ nodes[f].importers # {}
           /\ nodes[f].lastInvalidationTimestamp = 0

\* C13: onFileChange(file) on a file with several nodes invalidates every node of the
\* file and, for each of them, every node reachable from it along non-accepting
\* importer edges: each is processed, is left without artifacts and has a time read
\* during the call as lastInvalidationTimestamp; the nodes reachable from no node of
\* the file are as they were.
C13_EveryVariantAndItsImporters ==
    [][WalkStep("onFileChange") =>
          /\ \A m \in fileToModulesMap[lastOp'.file] :
                 \A n \in NonAcceptingClosure(nodes, {m}) :
                     /\ Processed(lastOp'.visited, n) = 1
                     /\ Artifacts(nodes'[n]) = <<FALSE, FALSE, FALSE, FALSE>>
                     /\ nodes'[n].lastInvalidationTimestamp \in now..now'
          /\ \A n \in NodeIds \ NonAcceptingClosure(nodes, fileToModulesMap[lastOp'.file]) :
                 nodes'[n] = nodes[n]]_vars

\* onFileChange has run on a file with two modules that have a common importer which
\* accepts neither: the walk from the first module has processed the importer, the
\* walk from the second has processed the second module, later
C13_Witness ==
    /\ lastOp.op = "onFileChange"
    /\ Has(fileToModulesMap, lastOp.file)
    /\ Cardinality(fileToModulesMap[lastOp.file]) = 2
    /\ Len(lastOp.visited) = 3
    /\ lastOp.visited[1] \in fileToModulesMap[lastOp.file]
    /\ lastOp.visited[2] \notin fileToModulesMap[lastOp.file]
    /\ lastOp.visited[3] \in fileToModulesMap[lastOp.file]
    /\ lastOp.visited[2] \in nodes[lastOp.visited[1]].importers
    /\ lastOp.visited[2] \in nodes[lastOp.visited[3]].importers
    /\ \A i \in 1..3 : Artifacts(nodes[lastOp.visited[i]]) = <<FALSE, FALSE, FALSE, FALSE>>
    /\ nodes[lastOp.visited[1]].lastInvalidationTimestamp = 1
    /\ nodes[lastOp.visited[2]].lastInvalidationTimestamp = 1
    /\ nodes[lastOp.visited[3]].lastInvalidationTimestamp = MaxTime

\* the recursion of invalidateModule returns, from whichever node it starts, and so
\* does the loop over several nodes that invalidateAll and onFileChange make: the
\* walk has a value
WalksReturn ==
    /\ \A mod \in NodeIds :
           invalidateModule(Walk(nodes, {}), mod, MaxTime, FALSE, {}).seen
               \subseteq NodeIds
    /\ InvalidateEach(Walk(nodes, {}), InOrder(NodeIds),
                      [i \in 1..Cardinality(NodeIds) |-> MaxTime], FALSE).seen
           \subseteq NodeIds

\* C19: on every graph, with import cycles and self-imports, the walk of
\* invalidateModule returns from every node and so does the loop of invalidateAll and
\* onFileChange, and the walk a call makes with its one seen set processes no node
\* twice: it processes the nodes it adds to the seen set, once each, and none of the
\* nodes the seen set held.
C19_WalksReturnEachNodeOnce ==
    /\ [](lastOp.op \notin WalkOps => WalksReturn)
    /\ [][(\E op \in WalkOps : WalkStep(op)) =>
             /\ \A n \in NodeIds : Processed(lastOp'.visited, n) <= 1
             /\ { lastOp'.visited[i] : i \in DOMAIN lastOp'.visited }
                    = lastOp'.seen \ lastOp'.given
             /\ lastOp'.given \subseteq lastOp'.seen]_vars

\* an invalidation has returned from a graph where a module imports itself and is in
\* an import cycle with another module, both processed
C19_Witness ==
    /\ lastOp.op = "onFileChange"
    /\ \E m, n \in NodeIds :
           /\ m # n
           /\ m \in nodes[m].importers
           /\ n \in nodes[m].importers
           /\ m \in nodes[n].importers
           /\ nodes[m].acceptedHmrDeps = {}
           /\ nodes[n].acceptedHmrDeps = {}
           /\ Processed(lastOp.visited, m) = 1
           /\ Processed(lastOp.visited, n) = 1

\* C14: over any sequence of invalidateModule, invalidateAll and onFileChange calls,
\* whatever timestamps the callers of invalidateModule supply, lastHMRTimestamp and
\* lastInvalidationTimestamp of a node never decrease.
C14_TimestampsNeverDecrease ==
    [][\A n \in NodeIds :
          /\ nodes'[n].lastHMRTimestamp >= nodes[n].lastHMRTimestamp
          /\ nodes'[n].lastInvalidationTimestamp >= nodes[n].lastInvalidationTimestamp]_vars

\* the url index, the id index, the file index and the nodes
Indices == <<urlToModuleMap, idToModuleMap, fileToModulesMap, nodes>>

\* the modPromise p rejects in this step
Rejects(p) == promises[p].state = "pending" /\ promises'[p].state = "rejected"

\* C15: when the resolver rejects, the rejection reaches every caller that holds the
\* modPromise of the attempt, and the attempt registers nothing: the ensureEntryFromUrl
\* call, the rejection, and everything after it that concerns the modPromise leave the
\* url index, the id index, the file index and the nodes as they were. A resolveUrl
\* call that the resolver, or the modPromise it awaits, rejects ends rejected and
\* changes none of them either.
C15_RejectionLeavesNoNode ==
    [][/\ \A p \in DOMAIN promises :
              /\ Rejects(p) =>
                     /\ Indices' = Indices
                     /\ \A c \in DOMAIN calls :
                            calls[c].entry = PromiseEntry(p)
                                => promises'[calls[c].entry.ref].state = "rejected"
              /\ promises[p].state = "rejected" => promises'[p] = promises[p]
       /\ Len(calls') > Len(calls) => Indices' = Indices
       /\ \A l \in DOMAIN lookups :
              (lookups[l].pc # "rejected" /\ lookups'[l].pc = "rejected")
                  => Indices' = Indices]_vars

\* the resolver has rejected an ensureEntryFromUrl call and a resolveUrl call: both
\* callers have the rejection, and the graph has no node
C15_Witness ==
    /\ \E c \in DOMAIN calls : Rejected(calls[c].entry)
    /\ \E l \in DOMAIN lookups :
           /\ lookups[l].op = "resolveUrl"
           /\ lookups[l].pc = "rejected"
           /\ lookups[l].entry = NoEntry
    /\ nodes = <<>>
    /\ DOMAIN urlToModuleMap = {}
    /\ DOMAIN idToModuleMap = {}
    /\ DOMAIN fileToModulesMap = {}

\* the resolver answers null for the url
Unresolvable(url, ssr) == ResolveId(url, ssr).null

\* C16: when the resolver returns null for a url, ensureEntryFromUrl and resolveUrl
\* end as a failed resolution, and no node is created for the url.
C16_NullIsAFailedResolution ==
    /\ \A p \in DOMAIN promises :
           Unresolvable(promises[p].rawUrl, promises[p].ssr)
               => /\ promises[p].state \in {"pending", "rejected"}
                  /\ \A n \in NodeIds : nodes[n].url # promises[p].rawUrl
    /\ \A l \in DOMAIN lookups :
           (lookups[l].op = "resolveUrl" /\ Unresolvable(lookups[l].arg, lookups[l].ssr))
               => lookups[l].pc # "returned"

\* a lookup call is made, or goes on, in this step
LookupRuns == lookups' # lookups

\* C17: getModuleByUrl, getModuleById and getModulesByFile (and resolveUrl), from the
\* call to the return, leave the url index, the id index, the file index, the two
\* pending caches and the modPromises in them as they were and create no node,
\* whatever the input.
C17_LookupsWriteNothing ==
    [][LookupRuns =>
          /\ Indices' = Indices
          /\ unresolved' = unresolved
          /\ promises' = promises]_vars

\* getModuleByUrl has resolved a url the registry has never seen, whose id is
\* registered, and has returned: the url is in no index and in no pending cache;
\* getModuleById has been asked for an id that is not registered
C17_Witness ==
    /\ \E l \in DOMAIN lookups :
           /\ lookups[l].op = "getModuleByUrl"
           /\ lookups[l].pc = "returned"
           /\ lookups[l].entry = NoEntry
           /\ Has(idToModuleMap, lookups[l].res.id)
           /\ ~Has(urlToModuleMap, lookups[l].res.url)
           /\ ~HasUnresolved(unresolved, lookups[l].arg, lookups[l].ssr)
    /\ \E l \in DOMAIN lookups :
           /\ lookups[l].op = "getModuleById"
           /\ lookups[l].mod = NoNode
           /\ ~Has(idToModuleMap, lookups[l].arg)

\* C18: getModuleByUrl(rawUrl, ssr) returns the pending-cache entry of the normalized
\* url when there is one; otherwise it resolves the url and, when the id index has a
\* node under the resolved id, returns that node, whether or not the url was ever
\* passed to ensureEntryFromUrl.
C18_ReturnsNodeOfResolvedId ==
    [][\A l \in DOMAIN lookups' :
          ( /\ lookups'[l].op = "getModuleByUrl"
            /\ lookups'[l].pc = "returned"
            /\ (l \in DOMAIN lookups => lookups[l].pc = "resolve") ) =>
             IF HasUnresolved(unresolved, lookups'[l].arg, lookups'[l].ssr)
                /\ l \notin DOMAIN lookups
             THEN lookups'[l].entry
                      = GetUnresolved(unresolved, lookups'[l].arg, lookups'[l].ssr)
             ELSE Has(idToModuleMap, lookups'[l].res.id)
                      => lookups'[l].mod = idToModuleMap[lookups'[l].res.id]]_vars

\* the nodes stay, with their url, id and file; the id index and the file index keep
\* every entry they have
RegistryKept ==
    /\ Len(nodes') >= Len(nodes)
    /\ \A n \in NodeIds :
           <<nodes'[n].url, nodes'[n].id, nodes'[n].file>>
               = <<nodes[n].url, nodes[n].id, nodes[n].file>>
    /\ \A id \in DOMAIN idToModuleMap :
           Has(idToModuleMap', id) /\ idToModuleMap'[id] = idToModuleMap[id]
    /\ \A file \in DOMAIN fileToModulesMap :
           Has(fileToModulesMap', file)
               /\ fileToModulesMap[file] \subseteq fileToModulesMap'[file]

EntriesOfFile(ns, index, file) ==
    IF file \in DOMAIN index
    THEN { m \in index[file] : ns[m].url = <<"/@fs">> \o file \/ ns[m].id = file }
    ELSE {}

\* the first of them
FirstOf(S) == CHOOSE m \in S : \A n \in S : m <= n

\* the files of the calls
FilesCalled == { [i \in DOMAIN f |-> IF f[i] = "\\c" THEN "/c" ELSE f[i]] : f \in RawFiles }

\* C22: createFileOnlyEntry(file) returns the registered node of the file whose url is
\* the fs-root marker followed by the file or whose id is the file, when there is one,
\* and changes nothing else; otherwise it creates a node with that url, without id,
\* and registers it in the file index alone. The node it returns for a file is the
\* same in every later call, and a file gets at most one node without id.
C22_FileOnlyEntryOnce ==
    /\ [](\A file \in FilesCalled :
             Cardinality({ n \in NodeIds : nodes[n].file = file /\ nodes[n].id = NoId }) <= 1)
    /\ [][\A file \in FilesCalled :
             EntriesOfFile(nodes, fileToModulesMap, file) # {} =>
                 FirstOf(EntriesOfFile(nodes', fileToModulesMap', file))
                     = FirstOf(EntriesOfFile(nodes, fileToModulesMap, file))]_vars
    /\ [][lastOp'.op = "createFileOnlyEntry" =>
             /\ lastOp'.file \in FilesCalled
             /\ lastOp'.mod = FirstOf(EntriesOfFile(nodes', fileToModulesMap', lastOp'.file))
             /\ urlToModuleMap' = urlToModuleMap
             /\ idToModuleMap' = idToModuleMap
             /\ IF EntriesOfFile(nodes, fileToModulesMap, lastOp'.file) # {}
                THEN /\ nodes' = nodes
                     /\ fileToModulesMap' = fileToModulesMap
                ELSE /\ nodes' = Append(nodes, nodes'[lastOp'.mod])
                     /\ lastOp'.mod = Len(nodes) + 1
                     /\ nodes'[lastOp'.mod].url = <<"/@fs">> \o lastOp'.file
                     /\ nodes'[lastOp'.mod].file = lastOp'.file
                     /\ nodes'[lastOp'.mod].id = NoId
                     /\ fileToModulesMap'[lastOp'.file]
                            = {lastOp'.mod} \cup
                              (IF Has(fileToModulesMap, lastOp'.file)
                               THEN fileToModulesMap[lastOp'.file] ELSE {})]_vars

\* createFileOnlyEntry has been called again for a file after a module whose id is the
\* file was registered: it has returned the node without id that the first call made
C22_Witness ==
    /\ lastOp.op = "createFileOnlyEntry"
    /\ nodes[lastOp.mod].id = NoId
    /\ \E m \in fileToModulesMap[lastOp.file] :
           /\ m > lastOp.mod
           /\ nodes[m].id = lastOp.file

\* a url with the extension of the id it resolves to spliced in before its query
WithExtension(url, id) ==
    IF EndsWith(cleanUrl(url), extname(cleanUrl(id))) THEN url
    ELSE cleanUrl(url) \o extname(cleanUrl(id))
                      \o SubSeq(url, Len(cleanUrl(url)) + 1, Len(url))

\* the resolveUrl calls that have returned
ReturnedResolveUrls ==
    { l \in DOMAIN lookups : lookups[l].op = "resolveUrl" /\ lookups[l].pc = "returned" }

\* C23: resolveUrl returns the same served url for a non-virtual url given without and
\* with the extension of its resolved id, and ensureEntryFromUrl the same node; the
\* extension is spliced in before the query, and resolveUrl returns a virtual url as it
\* was given.
C23_ConvergeOnOneServedUrl ==
    /\ \A l1, l2 \in ReturnedResolveUrls :
          ( /\ ~IsVirtual(lookups[l1].arg)
            /\ lookups[l1].res.id = lookups[l2].res.id
            /\ lookups[l2].arg = WithExtension(lookups[l1].arg, lookups[l1].res.id) )
          => lookups[l1].res.url = lookups[l2].res.url
    /\ \A i, j \in DOMAIN calls :
          ( /\ Fulfilled(calls[i].entry)
            /\ Fulfilled(calls[j].entry)
            /\ SameResolvedId(calls[i], calls[j])
            /\ NormalizedUrl(calls[j])
                 = WithExtension(NormalizedUrl(calls[i]), ResolverAnswer(calls[i]).id) )
          => ValueOf(calls[i].entry) = ValueOf(calls[j].entry)
    /\ \A l \in ReturnedResolveUrls :
          /\ IsVirtual(lookups[l].arg) => lookups[l].res.url = lookups[l].arg
          /\ ( ~IsVirtual(lookups[l].arg) /\ lookups[l].entry.kind = "none" )
             => lookups[l].res.url = WithExtension(lookups[l].arg, lookups[l].res.id)

\* C24: every resolution that ensureEntryFromUrl has started settles, and a later call
\* for the same normalized url and ssr flag is answered from the pending cache, with the
\* promise of the earlier call or with its node, the resolver having been invoked once.
C24_RunsToCompletionOnce ==
    /\ \A p \in 1..MaxCalls :
          (p \in DOMAIN promises) ~> (p \in DOMAIN promises /\ Settled(PromiseEntry(p)))
    /\ [](\A i, j \in DOMAIN calls :
            ( /\ i < j
              /\ NormalizedUrl(calls[i]) = NormalizedUrl(calls[j])
              /\ calls[i].ssr = calls[j].ssr )
            => /\ calls[j].hit
               /\ resolveCalls[<<NormalizedUrl(calls[i]), calls[i].ssr>>] = 1
               /\ \/ calls[j].entry = calls[i].entry
                  \/ /\ calls[j].entry.kind = "node"
                     /\ Fulfilled(calls[i].entry)
                     /\ calls[j].entry.ref = ValueOf(calls[i].entry))

\* a call made after the resolution of an earlier call for the same url has completed
\* was handed the node, and no resolution is pending
C24_Witness ==
    \E i, j \in DOMAIN calls :
        /\ i < j
        /\ NormalizedUrl(calls[i]) = NormalizedUrl(calls[j])
        /\ calls[i].ssr = calls[j].ssr
        /\ calls[i].entry.kind = "promise"
        /\ calls[j].entry.kind = "node"
        /\ calls[j].entry.ref = ValueOf(calls[i].entry)
        /\ resolveCalls[<<NormalizedUrl(calls[i]), calls[i].ssr>>] = 1
        /\ \A p \in DOMAIN promises : Settled(PromiseEntry(p))

\* C25: ssrError, transformResult, ssrTransformResult and ssrModule of every node are
\* left as they are by every step of ensureEntryFromUrl, updateModuleInfo,
\* createFileOnlyEntry, resolveUrl and the lookups: only an invalidation changes them.
C25_ArtifactsChangedByInvalidationOnly ==
    [][lastOp'.op \notin WalkOps
         => \A n \in NodeIds : Artifacts(nodes'[n]) = Artifacts(nodes[n])]_vars

\* a cached module has been analysed, looked up by url and given a sibling in its file,
\* and still has its four artifacts
C25_Witness ==
    \E n \in NodeIds :
        /\ Artifacts(nodes[n]) = <<TRUE, TRUE, TRUE, TRUE>>
        /\ \E c \in DOMAIN updates :
              /\ updates[c].mod = n
              /\ updates[c].pc = "returned"
              /\ nodes[n].clientImportedModules \cup nodes[n].ssrImportedModules # {}
        /\ \E l \in DOMAIN lookups :
              /\ lookups[l].op = "resolveUrl"
              /\ lookups[l].pc = "returned"
              /\ lookups[l].res.id = nodes[n].id
        /\ \E m \in NodeIds : m # n /\ nodes[m].file = nodes[n].file

\* C26: a call of updateModuleInfo reports as orphans the dropped dependencies whose
\* importers are empty at the moment it runs its diff, whatever the other calls in
\* flight are about to add, and the set it has computed is never changed afterwards.
C26_OrphanReportStands ==
    [][\A c \in DOMAIN updates' :
          /\ Applies(c)
             => updates'[c].noLongerImported =
                  { d \in updates'[c].prevImports \ nodes'[updates'[c].mod].clientImportedModules :
                       nodes'[d].importers = {} }
          /\ (c \in DOMAIN updates /\ updates[c].pc \in {"accepted", "returned"})
             => updates'[c].noLongerImported = updates[c].noLongerImported]_vars

\* a call has returned a dependency as orphaned, and a call that was started before it
\* and imports the dependency through a url has since added its node to the importers
C26_Witness ==
    \E c, c2 \in DOMAIN updates, d \in NodeIds :
        /\ c2 < c
        /\ updates[c].pc = "returned"
        /\ d \in updates[c].noLongerImported
        /\ updates[c2].mod # updates[c].mod
        /\ updates[c2].mod \in nodes[d].importers
        /\ \E u \in updates[c2].done : ValueOf(updates[c2].entries[u]) = d

\* the graph in the state a step leads to
WorldAfter == [nodes |-> nodes', promises |-> promises', resolveCalls |-> resolveCalls',
               unresolved |-> unresolved']

\* the arguments a call of updateModuleInfo was made with
ArgsOf(w, c) ==
    [ mod |-> c.mod, ssr |-> c.ssr,
      importedNodes |-> c.importedNodes, importedUrls |-> c.importedUrls,
      acceptedNodes |-> c.acceptedNodes, acceptedUrls |-> c.acceptedUrls,
      importedBindings |-> c.importedBindings, acceptedExports |-> c.acceptedExports,
      isSelfAccepting |-> (w.nodes[c.mod].isSelfAccepting = "true") ]

\* a call run from its start to its return, every url it imports being answered from
\* the pending cache
RanThrough(s) ==
    UpdateFinish(
        UpdateApplyImports(
            [s.w EXCEPT !.nodes =
                AddImporter(@, { ValueIn(s.w.promises, s.c.entries[u]) :
                                    u \in s.c.importedUrls }, s.c.mod)],
            s.c).w,
        UpdateApplyImports(
            [s.w EXCEPT !.nodes =
                AddImporter(@, { ValueIn(s.w.promises, s.c.entries[u]) :
                                    u \in s.c.importedUrls }, s.c.mod)],
            s.c).c)

\* the call c made again, with the same arguments, in the graph w
Repeated(w, c) == RanThrough(UpdateImportsStart(w, ArgsOf(w, c)))

\* the operations other than updateModuleInfo: an ensureEntryFromUrl made again is
\* answered from the pending cache, a createFileOnlyEntry made again finds the entry,
\* an invalidateModule of a fresh seen set made again with a fresh seen set leaves
\* every node as it is
RepeatedOthersChangeNothing ==
    /\ \A p \in DOMAIN promises :
          (promises[p].state = "pending" /\ promises'[p].state = "fulfilled")
          => /\ HasUnresolved(unresolved', promises[p].rawUrl, promises[p].ssr)
             /\ GetUnresolved(unresolved', promises[p].rawUrl, promises[p].ssr)
                  = NodeEntry(promises'[p].value)
    /\ lastOp'.op = "createFileOnlyEntry"
          => /\ lastOp'.mod \in fileToModulesMap'[lastOp'.file]
             /\ \/ nodes'[lastOp'.mod].url = FS_PREFIX \o lastOp'.file
                \/ nodes'[lastOp'.mod].id = lastOp'.file
    /\ (lastOp'.op = "invalidateModule" /\ lastOp'.given = {})
          => invalidateModule(Walk(nodes', {}), lastOp'.mod, lastOp'.timestamp,
                              lastOp'.isHmr, lastOp'.hmrBoundaries).nodes = nodes'

\* no other call of updateModuleInfo was in flight during the call c that returns:
\* under nested calls, c is the last call made and every earlier call has returned
Alone(c) ==
    \A c2 \in DOMAIN updates' : c2 # c => (c2 < c /\ updates'[c2].pc = "returned")

KeptByOtherDirection(c) ==
    { dep \in updates'[c].prevImports :
        /\ dep \notin EdgesInDirection(nodes'[updates'[c].mod], updates'[c])
        /\ dep \in EdgesInOtherDirection(nodes'[updates'[c].mod], updates'[c]) }

\* C28: when updateModuleInfo replaces the edge set of one direction, a previous import
\* of that direction that is absent from the new set but still in the edge set of the
\* other direction keeps the node among its importers and is not in the orphan set.
C28_OtherDirectionKeepsImporter ==
    [][\A c \in DOMAIN updates' :
          Applies(c) =>
              \A dep \in KeptByOtherDirection(c) :
                  /\ updates'[c].mod \in nodes[dep].importers
                        => updates'[c].mod \in nodes'[dep].importers
                  /\ dep \notin updates'[c].noLongerImported]_vars

\* a call has dropped from its direction a dependency whose only importer is the node,
\* which still imports it in the other direction, and has returned without orphans
C28_Witness ==
    \E c \in DOMAIN updates :
        /\ updates[c].pc = "returned"
        /\ updates[c].noLongerImported = {}
        /\ \E dep \in updates[c].prevImports :
               /\ dep \notin EdgesInDirection(nodes[updates[c].mod], updates[c])
               /\ dep \in EdgesInOtherDirection(nodes[updates[c].mod], updates[c])
               /\ nodes[dep].importers = {updates[c].mod}

\* the call c replaces the edge set of its node in this step, and is a call for the
\* node n with the flag ssr
ReplacesFor(c, n, ssr) ==
    /\ Applies(c)
    /\ updates'[c].mod = n
    /\ updates'[c].ssr = ssr

\* C29: ssrImportedModules of a node is changed only by an updateModuleInfo call for the
\* node with ssr = true and clientImportedModules only by one with ssr = false; the call
\* leaves the edge set of the other direction as it is, and the set it writes is
\* exactly the nodes its importedModules argument resolved to.
C29_ReplacesOnlyItsDirection ==
    [][/\ \A n \in NodeIds :
             /\ nodes'[n].ssrImportedModules # nodes[n].ssrImportedModules
                   => \E c \in DOMAIN updates' : ReplacesFor(c, n, TRUE)
             /\ nodes'[n].clientImportedModules # nodes[n].clientImportedModules
                   => \E c \in DOMAIN updates' : ReplacesFor(c, n, FALSE)
       /\ \A c \in DOMAIN updates' :
             Applies(c) =>
                /\ IF updates'[c].ssr
                   THEN /\ nodes'[updates'[c].mod].ssrImportedModules
                             = NextImports(promises', updates'[c])
                        /\ nodes'[updates'[c].mod].clientImportedModules
                             = nodes[updates'[c].mod].clientImportedModules
                   ELSE /\ nodes'[updates'[c].mod].clientImportedModules
                             = NextImports(promises', updates'[c])
                        /\ nodes'[updates'[c].mod].ssrImportedModules
                             = nodes[updates'[c].mod].ssrImportedModules
                /\ NextImports(promises', updates'[c])
                     = updates'[c].importedNodes
                        \cup { idToModuleMap'[ResolveUrlWith(u, ResolveId(u, updates'[c].ssr)).id] :
                                  u \in updates'[c].importedUrls }]_vars

\* a node has been analysed once for each direction, one of the calls importing through
\* a url: each edge set holds what the call of its direction resolved
C29_Witness ==
    \E c1, c2 \in DOMAIN updates :
        /\ updates[c1].mod = updates[c2].mod
        /\ updates[c1].ssr
        /\ ~updates[c2].ssr
        /\ updates[c1].pc = "returned"
        /\ updates[c2].pc = "returned"
        /\ updates[c1].importedUrls \cup updates[c2].importedUrls # {}
        /\ nodes[updates[c1].mod].ssrImportedModules = NextImports(promises, updates[c1])
        /\ nodes[updates[c1].mod].clientImportedModules = NextImports(promises, updates[c2])
        /\ NextImports(promises, updates[c1]) # {}
        /\ NextImports(promises, updates[c2]) # {}
        /\ NextImports(promises, updates[c1]) # NextImports(promises, updates[c2])

\* C30: invalidateAll() leaves every node of the id index with one and the same
\* lastInvalidationTimestamp, the time read by the call, and without artifacts, also a
\* node whose importers all accept it, and leaves lastHMRTimestamp of every node as it was.
C30_OneStampForAll ==
    [][lastOp'.op = "invalidateAll" =>
          /\ \A m, n \in InIdIndex :
                 nodes'[m].lastInvalidationTimestamp = nodes'[n].lastInvalidationTimestamp
          /\ \A n \in InIdIndex :
                 /\ nodes'[n].lastInvalidationTimestamp = now'
                 /\ Artifacts(nodes'[n]) = <<FALSE, FALSE, FALSE, FALSE>>
          /\ \A n \in NodeIds : nodes'[n].lastHMRTimestamp = nodes[n].lastHMRTimestamp]_vars

\* invalidateAll() has run after an HMR invalidation at another time: a node accepted
\* by its only importer has the timestamp of the call, like its importer, has no
\* artifacts and has kept its lastHMRTimestamp
C30_Witness ==
    /\ lastOp.op = "invalidateAll"
    /\ \E n \in InIdIndex :
           /\ nodes[n].importers # {}
           /\ \A i \in nodes[n].importers :
                  /\ n \in nodes[i].acceptedHmrDeps
                  /\ nodes[i].lastInvalidationTimestamp = lastOp.timestamp
           /\ nodes[n].lastInvalidationTimestamp = lastOp.timestamp
           /\ nodes[n].lastHMRTimestamp \notin {0, lastOp.timestamp}
           /\ Artifacts(nodes[n]) = <<FALSE, FALSE, FALSE, FALSE>>

-----------------------------------------------------------------------------
(* Boundaries and recursion *)

\* C31: the hmrBoundaries of an invalidateModule call stop the walk at the node of the
\* call alone: when that node is not listed, the call processes exactly the nodes
\* reachable from it along importer edges whose importer does not accept the node it
\* imports, so an importer that is listed is invalidated like any other and its own
\* non-accepting importers are invalidated after it.
C31_BoundariesNotInherited ==
    [][( /\ InvalidateStep
         /\ lastOp'.given = {}
         /\ lastOp'.mod \notin lastOp'.hmrBoundaries ) =>
          /\ lastOp'.seen = NonAcceptingClosure(nodes, {lastOp'.mod})
          /\ \A b \in lastOp'.hmrBoundaries \cap NonAcceptingClosure(nodes, {lastOp'.mod}) :
                 /\ Processed(lastOp'.visited, b) = 1
                 /\ Artifacts(nodes'[b]) = <<FALSE, FALSE, FALSE, FALSE>>
                 /\ \A i \in nodes[b].importers :
                        b \notin nodes[i].acceptedHmrDeps =>
                            /\ Processed(lastOp'.visited, i) = 1
                            /\ Artifacts(nodes'[i]) = <<FALSE, FALSE, FALSE, FALSE>>
                            /\ IF lastOp'.isHmr
                               THEN nodes'[i].lastHMRTimestamp = lastOp'.timestamp
                               ELSE nodes'[i].lastInvalidationTimestamp = lastOp'.timestamp]_vars

\* an invalidation has reached a listed boundary by recursion and has gone on to the
\* importer of the boundary
C31_Witness ==
    /\ lastOp.op = "invalidateModule"
    /\ lastOp.given = {}
    /\ lastOp.mod \notin lastOp.hmrBoundaries
    /\ \E b \in lastOp.hmrBoundaries, i \in NodeIds \ {lastOp.mod} :
           /\ b # i
           /\ b \in nodes[lastOp.mod].importers
           /\ lastOp.mod \notin nodes[b].acceptedHmrDeps
           /\ i \in nodes[b].importers
           /\ b \notin nodes[i].acceptedHmrDeps
           /\ lastOp.visited = <<lastOp.mod, b, i>>
           /\ Artifacts(nodes[b]) = <<FALSE, FALSE, FALSE, FALSE>>
           /\ Artifacts(nodes[i]) = <<FALSE, FALSE, FALSE, FALSE>>

-----------------------------------------------------------------------------
(* A rejected resolution in the pending cache *)

\* the call has failed: it was rejected, or it has returned a rejected modPromise
Fails(l) ==
    \/ lookups[l].pc = "rejected"
    \/ lookups[l].pc = "returned" /\ Rejected(lookups[l].entry)

\* the step starts a call of one of the operations for the url and the ssr flag, and
\* hands it the cache entry
StartsWith(url, ssr, entry) ==
    /\ Len(calls') > Len(calls) =>
           LET c == calls'[Len(calls')]
           IN  (NormalizedUrl(c) = url /\ c.ssr = ssr) => (c.entry = entry /\ c.hit)
    /\ Len(lookups') > Len(lookups) =>
           LET l == lookups'[Len(lookups')]
           IN  (l.op \in {"getModuleByUrl", "resolveUrl"} /\ l.arg = url /\ l.ssr = ssr)
                   => l.entry = entry

\* C32: a rejected modPromise stays in the pending cache of its ssr flag under its url:
\* every ensureEntryFromUrl, getModuleByUrl and resolveUrl call for the url and the flag
\* that starts afterwards is handed that promise and fails with its rejection, and none
\* of them invokes the resolver; the resolver is invoked for the url again only by a
\* lookup that had read the cache before the promise was published.
C32_RejectionStaysCached ==
    [][\A ssr \in BOOLEAN : \A url \in DOMAIN unresolved[ssr] :
           Rejected(unresolved[ssr][url]) =>
               /\ url \in DOMAIN unresolved'[ssr]
               /\ unresolved'[ssr][url] = unresolved[ssr][url]
               /\ Rejected(unresolved[ssr][url])'
               /\ StartsWith(url, ssr, unresolved[ssr][url])
               /\ \A l \in DOMAIN lookups :
                      lookups[l].entry = unresolved[ssr][url] =>
                          /\ (lookups[l].pc = "cache" /\ lookups'[l] # lookups[l])
                                 => lookups'[l].pc = "rejected"
                          /\ lookups[l].pc # "cache" => (Fails(l) /\ Fails(l)')
               /\ resolveCalls'[<<url, ssr>>] # resolveCalls[<<url, ssr>>] =>
                      \E l \in DOMAIN lookups :
                          /\ lookups[l].arg = url
                          /\ lookups[l].ssr = ssr
                          /\ lookups[l].entry = NoEntry
                          /\ lookups[l].pc = "cache"
                          /\ lookups'[l].pc = "resolve"]_vars

\* a resolution was rejected; an ensureEntryFromUrl call, a getModuleByUrl call and a
\* resolveUrl call made afterwards have failed with it, and the resolver has been
\* invoked once
C32_Witness ==
    \E i, j \in DOMAIN calls, l, m \in DOMAIN lookups :
        /\ i < j
        /\ ~calls[i].hit
        /\ calls[j].hit
        /\ calls[j].entry = calls[i].entry
        /\ Rejected(calls[j].entry)
        /\ lookups[l].op = "getModuleByUrl"
        /\ lookups[m].op = "resolveUrl"
        /\ lookups[l].entry = calls[i].entry
        /\ lookups[m].entry = calls[i].entry
        /\ Fails(l)
        /\ lookups[m].pc = "rejected"
        /\ resolveCalls[<<NormalizedUrl(calls[i]), calls[i].ssr>>] = 1

-----------------------------------------------------------------------------
(* A failed updateModuleInfo *)

\* the call has failed at the await of its imports: a url it imports was rejected
FailedOnImports(c) ==
    /\ updates[c].pc = "failed"
    /\ \E u \in updates[c].importedUrls : Rejected(updates[c].entries[u])

\* C33: once updateModuleInfo has failed on an import that cannot be resolved, with no
\* other call in flight, the edge set of the node is the one it had at the call, and a
\* dependency named in the call has the node among its importers only if the node
\* imports it.
C33_FailedUpdateChangesNoImport ==
    \A c \in DOMAIN updates :
        ( /\ FailedOnImports(c)
          /\ c = Len(updates)
          /\ \A c2 \in DOMAIN updates \ {c} : updates[c2].pc = "returned" )
        => /\ EdgesInDirection(nodes[updates[c].mod], updates[c]) = updates[c].prevImports
           /\ \A n \in NodeIds :
                  ( /\ \/ n \in updates[c].importedNodes
                       \/ \E u \in updates[c].importedUrls :
                              /\ Fulfilled(updates[c].entries[u])
                              /\ ValueOf(updates[c].entries[u]) = n
                    /\ updates[c].mod \in nodes[n].importers )
                  => n \in importedModules(nodes[updates[c].mod])

-----------------------------------------------------------------------------
(* Edge set and accepted dependencies *)

\* the dependencies the call c will install as acceptedHmrDeps, as far as they are
\* resolved
AcceptedBy(c) ==
    updates[c].acceptedNodes \cup
        { ValueOf(updates[c].accEntries[u]) :
              u \in { v \in updates[c].acceptedUrls \cap DOMAIN updates[c].accEntries :
                         Fulfilled(updates[c].accEntries[v]) } }

\* C34: an invalidateModule call never runs on a graph in which a suspended
\* updateModuleInfo has installed the new edge set of its node and not yet its
\* acceptedHmrDeps: every dependency the call has newly put in the edge set and accepts
\* is in acceptedHmrDeps of the node.
C34_EdgeSetAndAcceptedTogether ==
    [][lastOp'.op = "invalidateModule" =>
          \A c \in DOMAIN updates :
              updates[c].pc = "accepted" =>
                  \A dep \in EdgesInDirection(nodes[updates[c].mod], updates[c])
                                 \ updates[c].prevImports :
                      dep \in AcceptedBy(c) =>
                          dep \in nodes[updates[c].mod].acceptedHmrDeps]_vars

-----------------------------------------------------------------------------
(* The url index and the id index *)

\* C35: every node of the id index is the node the url index holds under the url of
\* the node.
C35_IdIndexNodesUnderOwnUrl ==
    \A n \in InIdIndex :
        /\ Has(urlToModuleMap, nodes[n].url)
        /\ urlToModuleMap[nodes[n].url] = n

-----------------------------------------------------------------------------
(* createFileOnlyEntry and ensureEntryFromUrl on one file *)

\* the nodes createFileOnlyEntry has returned for the file, as far as the state tells:
\* the node of the call just made, and every node without id, which no other
\* operation creates
ReturnedForFile(file) ==
    { n \in NodeIds : nodes[n].file = file /\ nodes[n].id = NoId }
        \cup (IF lastOp.op = "createFileOnlyEntry" /\ lastOp.file = file
              THEN {lastOp.mod} ELSE {})

\* C36: when createFileOnlyEntry(file) and an ensureEntryFromUrl call whose url resolves
\* to the id file have both completed, in whichever order, they have returned the same
\* node and the file index holds that one node for the file.
C36_FileEntryAndEnsureCommute ==
    \A c \in DOMAIN calls, file \in FilesCalled :
        ( /\ Fulfilled(calls[c].entry)
          /\ nodes[ValueOf(calls[c].entry)].id = file
          /\ ReturnedForFile(file) # {} )
        => /\ ReturnedForFile(file) = {ValueOf(calls[c].entry)}
           /\ fileToModulesMap[file] = {ValueOf(calls[c].entry)}

-----------------------------------------------------------------------------
(* The two pending caches *)

\* the id _resolveUrl returns for the url of the call
ResolvedIdOf(call) == ResolveUrlWith(NormalizedUrl(call), ResolverAnswer(call)).id

\* the step changes the pending cache of the flag only under the url
ChangesOnlyUnder(ssr, url) ==
    /\ unresolved'[~ssr] = unresolved[~ssr]
    /\ \A u \in (DOMAIN unresolved[ssr] \cup DOMAIN unresolved'[ssr]) \ {url} :
           /\ u \in DOMAIN unresolved[ssr]
           /\ u \in DOMAIN unresolved'[ssr]
           /\ unresolved'[ssr][u] = unresolved[ssr][u]

\* C37: an ensureEntryFromUrl call reads and writes the pending cache of its own ssr
\* flag alone: it takes the quick path exactly when that cache has its url, and the
\* call and the completion of its resolution change that cache under that url and
\* nothing of the other cache. Two calls for one url with different flags each invoke
\* the resolver, once per flag, and once both have completed they have the same node
\* exactly when the two resolved ids are equal.
C37_PendingCachesIndependent ==
    /\ [][/\ Len(calls') > Len(calls) =>
                LET c == calls'[Len(calls')]
                IN  /\ c.hit <=> HasUnresolved(unresolved, NormalizedUrl(c), c.ssr)
                    /\ c.hit => /\ c.entry = GetUnresolved(unresolved, NormalizedUrl(c), c.ssr)
                                /\ unresolved' = unresolved
                                /\ resolveCalls' = resolveCalls
                    /\ ~c.hit => resolveCalls'[<<NormalizedUrl(c), c.ssr>>]
                                     = resolveCalls[<<NormalizedUrl(c), c.ssr>>] + 1
                    /\ ChangesOnlyUnder(c.ssr, NormalizedUrl(c))
          /\ \A p \in DOMAIN promises :
                 promises'[p].state # promises[p].state =>
                     ChangesOnlyUnder(promises[p].ssr, promises[p].rawUrl)]_vars
    /\ [](\A i, j \in DOMAIN calls :
              ( /\ NormalizedUrl(calls[i]) = NormalizedUrl(calls[j])
                /\ calls[i].ssr # calls[j].ssr )
              => /\ ~calls[i].hit \/ \E k \in 1..(i - 1) :
                                       /\ NormalizedUrl(calls[k]) = NormalizedUrl(calls[i])
                                       /\ calls[k].ssr = calls[i].ssr
                 /\ calls[i].entry # calls[j].entry
                 /\ resolveCalls[<<NormalizedUrl(calls[i]), calls[i].ssr>>] = 1
                 /\ resolveCalls[<<NormalizedUrl(calls[j]), calls[j].ssr>>] = 1
                 /\ (Fulfilled(calls[i].entry) /\ Fulfilled(calls[j].entry)) =>
                        ( ValueOf(calls[i].entry) = ValueOf(calls[j].entry)
                              <=> ResolvedIdOf(calls[i]) = ResolvedIdOf(calls[j]) ))

\* two overlapping calls for one raw url, one for the client and one for ssr, have each
\* invoked the resolver once and have completed with two nodes, of the two ids the
\* resolver answered
C37_Witness ==
    \E i, j \in DOMAIN calls :
        /\ i < j
        /\ calls[i].rawUrl = calls[j].rawUrl
        /\ calls[i].ssr # calls[j].ssr
        /\ ~calls[i].hit
        /\ ~calls[j].hit
        /\ calls[i].entry.kind = "promise"
        /\ calls[j].entry.kind = "promise"
        /\ Fulfilled(calls[i].entry)
        /\ Fulfilled(calls[j].entry)
        /\ resolveCalls[<<NormalizedUrl(calls[i]), calls[i].ssr>>] = 1
        /\ resolveCalls[<<NormalizedUrl(calls[j]), calls[j].ssr>>] = 1
        /\ ResolvedIdOf(calls[i]) # ResolvedIdOf(calls[j])
        /\ ValueOf(calls[i].entry) # ValueOf(calls[j].entry)
        /\ unresolved[calls[i].ssr][NormalizedUrl(calls[i])]
               = NodeEntry(ValueOf(calls[i].entry))
        /\ unresolved[calls[j].ssr][NormalizedUrl(calls[j])]
               = NodeEntry(ValueOf(calls[j].entry))

-----------------------------------------------------------------------------
(* The direction of the invalidation *)

RECURSIVE ImporterClosure(_, _)
\* the nodes R and their transitive importers
ImporterClosure(ns, R) ==
    IF \A n \in R : ns[n].importers \subseteq R
    THEN R
    ELSE ImporterClosure(ns, R \cup UNION { ns[n].importers : n \in R })

\* the nodes the walk of the step starts from: the node of invalidateModule, the nodes
\* of the file of onFileChange
StartNodes ==
    IF lastOp'.op = "invalidateModule" THEN {lastOp'.mod}
    ELSE IF Has(fileToModulesMap, lastOp'.file) THEN fileToModulesMap[lastOp'.file]
    ELSE {}

\* C38: invalidateModule(n) and onFileChange(file) change no field of a node that is
\* neither n, or a node of the file, nor a transitive importer of one: a module that n
\* imports and that does not import n back, directly or not, keeps its artifacts and both
\* timestamps; and onFileChange changes no lastHMRTimestamp.
C38_InvalidationTravelsUpward ==
    [][lastOp'.op \in {"invalidateModule", "onFileChange"} =>
          /\ \A m \in NodeIds \ ImporterClosure(nodes, StartNodes) : nodes'[m] = nodes[m]
          /\ \A n \in StartNodes :
                 \A m \in importedModules(nodes[n]) \ ImporterClosure(nodes, StartNodes) :
                     /\ Artifacts(nodes'[m]) = Artifacts(nodes[m])
                     /\ nodes'[m].lastHMRTimestamp = nodes[m].lastHMRTimestamp
                     /\ nodes'[m].lastInvalidationTimestamp
                            = nodes[m].lastInvalidationTimestamp
          /\ lastOp'.op = "onFileChange" =>
                 \A m \in NodeIds : nodes'[m].lastHMRTimestamp = nodes[m].lastHMRTimestamp]_vars

\* a file has changed after an HMR invalidation of its module: the module has the time
\* of the change and has kept its lastHMRTimestamp, and the two modules it imports,
\* which are not among its importers, have their artifacts and no timestamp
C38_Witness ==
    /\ lastOp.op = "onFileChange"
    /\ Has(fileToModulesMap, lastOp.file)
    /\ \E n \in fileToModulesMap[lastOp.file] :
           /\ lastOp.visited = <<n>>
           /\ nodes[n].lastInvalidationTimestamp = lastOp.timestamp
           /\ nodes[n].lastHMRTimestamp \notin {0, lastOp.timestamp}
           /\ Artifacts(nodes[n]) = <<FALSE, FALSE, FALSE, FALSE>>
           /\ Cardinality(importedModules(nodes[n])) = 2
           /\ \A m \in importedModules(nodes[n]) :
                  /\ n \in nodes[m].importers
                  /\ Artifacts(nodes[m]) = <<TRUE, TRUE, TRUE, TRUE>>
                  /\ nodes[m].lastHMRTimestamp = 0
                  /\ nodes[m].lastInvalidationTimestamp = 0

====
